---- MODULE Spec2Model ----
(***************************************************************************)
(* Verification model of the legal document summarizer.                    *)
(*                                                                         *)
(* Texts are sequences of one-character strings, so that str.split,        *)
(* str.strip, str.join, slicing and the regular expressions of the source  *)
(* are computed character by character as Python computes them.            *)
(***************************************************************************)
EXTENDS Integers, Sequences, FiniteSets, TLC

VARIABLES
    tokenizer,            \* LegalSummarizer.tokenizer is set (not None)
    model,                \* LegalSummarizer.model is set (not None)
    summarizer_pipeline,  \* LegalSummarizer.summarizer_pipeline is set (not None)
    load_status,          \* outcome of the last load_model call
    ct_call,              \* the last chunk_text call: arguments and outcome
    helper_call,          \* the last direct call of another method: arguments and outcome
    pc,                   \* position of the summarize call in progress
    document_text,        \* summarize: the text argument
    request_params,       \* summarize: the params argument, as the caller passed it
    validated_params,     \* summarize: validated_params
    doc_chunks,           \* summarize: chunks
    chunk_index,          \* summarize: the chunk the loop is at (i + 1)
    chunk_summaries,      \* summarize: chunk_summaries
    tiers,                \* for every summarized chunk, the tier that produced its summary
    fallback_used,        \* summarize: fallback_used
    final_summary,        \* summarize: final_summary
    model_calls,          \* the calls made to summarizer_pipeline, in order
    faults,               \* the stages in which an exception other than a model failure occurred
    outcome,              \* what summarize returned or raised
    retry_counts,         \* ErrorHandler.retry_counts
    retry_log,            \* the with_retry and reset_retry_count calls made, in order
    current_state,        \* ProcessingPipeline.current_state
    pipe_pc,              \* position of the process_document call in progress
    status_reports,       \* the states passed to _update_status by the last process_document call
    progress_reports,     \* the values passed to _update_progress by the last process_document call
    processing_stats,     \* ProcessingPipeline.processing_stats
    pipe_call,            \* the last process_document call: its locals and its outcome
    pipeline_loads,       \* the load_model invocations made by process_document, in order
    handler_temp_files,   \* DocumentHandler._temp_files
    security_temp_files,  \* SecurityService._temp_files
    disk_files,           \* the temporary files that exist
    created_files,        \* the temporary files created by DocumentHandler.save_temp_file
    clock,                \* the time, as datetime.now() and time.time() return it
    session_data,         \* SecurityService._session_data
    stored_entries,       \* for every session and key, the last entry stored and not cleared since
    store_call,           \* the store_session_data call in progress: its arguments and expiry_time
    cleanup_worker,       \* the cleanup thread: position and current_time of _cleanup_expired_sessions
    session_op,           \* the last get_session_data or clear_session_data call and its result
    session_ops,          \* number of calls made to the SecurityService
    requests,             \* RateLimiter._requests
    limit_calls,          \* for every thread, the check_limit call in progress: client_id and current_time
    limit_log             \* the check_limit calls that returned, in order

loadVars == <<tokenizer, model, summarizer_pipeline, load_status>>
sumVars == <<pc, document_text, request_params, validated_params, doc_chunks, chunk_index, chunk_summaries, tiers,
             fallback_used, final_summary, model_calls, faults, outcome>>
retryVars == <<retry_counts, retry_log>>
pipeVars == <<current_state, pipe_pc, status_reports, progress_reports, processing_stats, pipe_call,
              pipeline_loads>>
fileVars == <<handler_temp_files, security_temp_files, disk_files, created_files>>
sessVars == <<session_data, stored_entries, store_call, cleanup_worker, session_op, session_ops>>
rateVars == <<requests, limit_calls, limit_log>>
otherVars == <<retryVars, pipeVars, fileVars, clock, sessVars, rateVars>>

----------------------------------------------------------------------------
(* Bounds of the model                                                     *)

\* number of words of the long document and of the long model output
LongWords == 52
\* number of words of the model output of the word-limit scenario
ScenarioWords == 40
\* longest list of summaries passed to merge_chunk_summaries
MaxSummaries == 3
\* largest number of sentences of the texts of the emergency fallback
MaxSentences == 7
\* largest number of words of the summaries passed to _post_process_summary
MaxPostTokens == 2
\* longest text of the exhaustive family of chunk_text inputs
MaxLen == 4
\* largest number of ". "-joined fragments of the structured chunk_text inputs
MaxFrags == 4

----------------------------------------------------------------------------
(* Python string primitives                                                *)

Whitespace == {" ", "\n", "\t"}

Min(a, b) == IF a <= b THEN a ELSE b
Max(a, b) == IF a >= b THEN a ELSE b

\* s[i:i+len(p)] == p   (1-based i)
StartsWithAt(s, i, p) ==
    /\ i >= 1
    /\ i + Len(p) - 1 <= Len(s)
    /\ \A k \in 1..Len(p) : s[i + k - 1] = p[k]

\* s.startswith(p)
StartsWith(s, p) == StartsWithAt(s, 1, p)

\* s.endswith(p)
EndsWith(s, p) == Len(p) <= Len(s) /\ StartsWithAt(s, Len(s) - Len(p) + 1, p)

\* p in s
Contains(s, p) == \E i \in 1..(Len(s) - Len(p) + 1) : StartsWithAt(s, i, p)

\* seq[:n] for n >= 0
Take(s, n) == SubSeq(s, 1, Min(n, Len(s)))

\* least element of a non-empty set of integers
MinOf(S) == CHOOSE x \in S : \A y \in S : x <= y
MaxOf(S) == CHOOSE x \in S : \A y \in S : x >= y

\* position of the first occurrence of sep in s at or after i; 0 if none
NextOccurrence(s, i, sep) ==
    LET found == {j \in i..(Len(s) - Len(sep) + 1) : StartsWithAt(s, j, sep)}
    IN  IF found = {} THEN 0 ELSE MinOf(found)

RECURSIVE SplitFrom(_, _, _)
SplitFrom(s, sep, i) ==
    LET j == NextOccurrence(s, i, sep)
    IN  IF j = 0 THEN <<SubSeq(s, i, Len(s))>>
        ELSE <<SubSeq(s, i, j - 1)>> \o SplitFrom(s, sep, j + Len(sep))

\* s.split(sep): leftmost non-overlapping occurrences, empty pieces kept
Split(s, sep) == SplitFrom(s, sep, 1)

\* s.split(): runs of whitespace separate, no empty pieces
SplitWs(s) ==
    LET positions == [i \in 1..Len(s) |-> i]
        starts == SelectSeq(positions,
                      LAMBDA i : s[i] \notin Whitespace /\ (i = 1 \/ s[i - 1] \in Whitespace))
        ends == SelectSeq(positions,
                      LAMBDA i : s[i] \notin Whitespace /\ (i = Len(s) \/ s[i + 1] \in Whitespace))
    IN  [k \in 1..Len(starts) |-> SubSeq(s, starts[k], ends[k])]

\* s.strip()
Strip(s) ==
    LET inked == {i \in 1..Len(s) : s[i] \notin Whitespace}
    IN  IF inked = {} THEN <<>> ELSE SubSeq(s, MinOf(inked), MaxOf(inked))

RECURSIVE JoinRange(_, _, _, _)
JoinRange(parts, sep, lo, hi) ==
    IF lo > hi THEN <<>>
    ELSE IF lo = hi THEN parts[lo]
    ELSE LET mid == (lo + hi) \div 2
         IN  JoinRange(parts, sep, lo, mid) \o sep \o JoinRange(parts, sep, mid + 1, hi)

\* sep.join(parts)
Join(parts, sep) == JoinRange(parts, sep, 1, Len(parts))

RECURSIVE SumRange(_, _, _)
SumRange(ns, lo, hi) ==
    IF lo > hi THEN 0
    ELSE IF lo = hi THEN ns[lo]
    ELSE LET mid == (lo + hi) \div 2
         IN  SumRange(ns, lo, mid) + SumRange(ns, mid + 1, hi)

\* sum(ns)
SumSeq(ns) == SumRange(ns, 1, Len(ns))

SentenceSep == <<".", " ">>
Space == <<" ">>
Period == <<".">>
Ellipsis == <<".", ".", ".">>

----------------------------------------------------------------------------
(* The tokenizer (external): tokenizer.encode(text, add_special_tokens=    *)
(* False), used only through the length of its result.  It is modelled as  *)
(* an additive tokenizer: whitespace carries no token, the letter "H"      *)
(* stands for a passage of 600 tokens, every other character is one token. *)

TokenWeight(c) ==
    IF c \in Whitespace THEN 0
    ELSE IF c = "H" THEN 600
    ELSE 1

TokenCount(text) == SumSeq([k \in 1..Len(text) |-> TokenWeight(text[k])])

\* self.max_chunk_size set by __init__
max_chunk_size == 1024

----------------------------------------------------------------------------
(* LegalSummarizer.chunk_text                                              *)

RECURSIVE ChunkLoopLateCheck(_, _, _, _, _, _, _, _)
ChunkLoopLateCheck(sentences, i, max_length, chunks, groups, current_chunk, current_group, current_tokens) ==
    IF i > Len(sentences)
    THEN IF Strip(current_chunk) # <<>>
         THEN [chunks |-> Append(chunks, Strip(current_chunk)),
               groups |-> Append(groups, [frags |-> current_group, tokens |-> current_tokens])]
         ELSE [chunks |-> chunks, groups |-> groups]
    ELSE LET sentence == sentences[i]
             sentence_token_count == TokenCount(sentence)
         IN  IF current_tokens > max_length /\ current_chunk # <<>>
             THEN ChunkLoopLateCheck(sentences, i + 1, max_length,
                            Append(chunks, Strip(current_chunk)),
                            Append(groups, [frags |-> current_group, tokens |-> current_tokens]),
                            sentence \o SentenceSep, <<i>>, sentence_token_count)
             ELSE ChunkLoopLateCheck(sentences, i + 1, max_length, chunks, groups,
                            current_chunk \o sentence \o SentenceSep,
                            Append(current_group, i),
                            current_tokens + sentence_token_count)

RECURSIVE ChunkLoopSentenceOnly(_, _, _, _, _, _, _, _)
ChunkLoopSentenceOnly(sentences, i, max_length, chunks, groups, current_chunk, current_group, current_tokens) ==
    IF i > Len(sentences)
    THEN IF Strip(current_chunk) # <<>>
         THEN [chunks |-> Append(chunks, Strip(current_chunk)),
               groups |-> Append(groups, [frags |-> current_group, tokens |-> current_tokens])]
         ELSE [chunks |-> chunks, groups |-> groups]
    ELSE LET sentence == sentences[i]
             sentence_token_count == TokenCount(sentence)
         IN  IF sentence_token_count > max_length /\ current_chunk # <<>>
             THEN ChunkLoopSentenceOnly(sentences, i + 1, max_length,
                            Append(chunks, Strip(current_chunk)),
                            Append(groups, [frags |-> current_group, tokens |-> current_tokens]),
                            sentence \o SentenceSep, <<i>>, sentence_token_count)
             ELSE ChunkLoopSentenceOnly(sentences, i + 1, max_length, chunks, groups,
                            current_chunk \o sentence \o SentenceSep,
                            Append(current_group, i),
                            current_tokens + sentence_token_count)

RECURSIVE ChunkLoopDropsSentence(_, _, _, _, _, _, _, _)
ChunkLoopDropsSentence(sentences, i, max_length, chunks, groups, current_chunk, current_group, current_tokens) ==
    IF i > Len(sentences)
    THEN IF Strip(current_chunk) # <<>>
         THEN [chunks |-> Append(chunks, Strip(current_chunk)),
               groups |-> Append(groups, [frags |-> current_group, tokens |-> current_tokens])]
         ELSE [chunks |-> chunks, groups |-> groups]
    ELSE LET sentence == sentences[i]
             sentence_token_count == TokenCount(sentence)
         IN  IF current_tokens + sentence_token_count > max_length /\ current_chunk # <<>>
             THEN ChunkLoopDropsSentence(sentences, i + 1, max_length,
                            Append(chunks, Strip(current_chunk)),
                            Append(groups, [frags |-> current_group, tokens |-> current_tokens]),
                            <<>>, <<>>, 0)
             ELSE ChunkLoopDropsSentence(sentences, i + 1, max_length, chunks, groups,
                            current_chunk \o sentence \o SentenceSep,
                            Append(current_group, i),
                            current_tokens + sentence_token_count)

\* The for-loop of chunk_text over sentences[i..], followed by the final
\* flush.  groups records, for every emitted chunk, the indexes of the
\* fragments accumulated into it and tokens their summed token count
\* (current_tokens at the time the chunk is closed).
RECURSIVE ChunkLoop(_, _, _, _, _, _, _, _)
ChunkLoop(sentences, i, max_length, chunks, groups, current_chunk, current_group, current_tokens) ==
    IF i > Len(sentences)
    THEN IF Strip(current_chunk) # <<>>
         THEN [chunks |-> Append(chunks, Strip(current_chunk)),
               groups |-> Append(groups, [frags |-> current_group, tokens |-> current_tokens])]
         ELSE [chunks |-> chunks, groups |-> groups]
    ELSE LET sentence == sentences[i]
             sentence_token_count == TokenCount(sentence)
         IN  IF current_tokens + sentence_token_count > max_length /\ current_chunk # <<>>
             THEN ChunkLoop(sentences, i + 1, max_length,
                            Append(chunks, Strip(current_chunk)),
                            Append(groups, [frags |-> current_group, tokens |-> current_tokens]),
                            sentence \o SentenceSep, <<i>>, sentence_token_count)
             ELSE ChunkLoop(sentences, i + 1, max_length, chunks, groups,
                            current_chunk \o sentence \o SentenceSep,
                            Append(current_group, i),
                            current_tokens + sentence_token_count)

\* chunk_text with a loaded tokenizer; split tells whether the text was split
ChunkTextFullStrict(text, max_length) ==
    IF TokenCount(text) < max_length
    THEN [chunks |-> <<text>>, groups |-> <<>>, split |-> FALSE]
    ELSE LET r == ChunkLoop(Split(text, SentenceSep), 1, max_length, <<>>, <<>>, <<>>, <<>>, 0)
         IN  [chunks |-> r.chunks, groups |-> r.groups, split |-> TRUE]

ChunkTextFull(text, max_length) ==
    IF TokenCount(text) <= max_length
    THEN [chunks |-> <<text>>, groups |-> <<>>, split |-> FALSE]
    ELSE LET r == ChunkLoop(Split(text, SentenceSep), 1, max_length, <<>>, <<>>, <<>>, <<>>, 0)
         IN  [chunks |-> r.chunks, groups |-> r.groups, split |-> TRUE]

chunk_text(text, max_length) == ChunkTextFull(text, max_length).chunks

\* max_length is None -> self.max_chunk_size
EffectiveMaxLength(arg) ==
    IF arg.given THEN arg.value ELSE max_chunk_size

----------------------------------------------------------------------------
(* Characters, as the re module and str.lower see them                     *)

LowerChars == <<"a", "b", "c", "d", "e", "f", "g", "h", "i", "j", "k", "l", "m", "n", "o", "p", "q", "r", "s", "t", "u", "v", "w", "x", "y", "z">>
UpperChars == <<"A", "B", "C", "D", "E", "F", "G", "H", "I", "J", "K", "L", "M", "N", "O", "P", "Q", "R", "S", "T", "U", "V", "W", "X", "Y", "Z">>
Digits == {"0", "1", "2", "3", "4", "5", "6", "7", "8", "9"}

\* \w
WordChars == {LowerChars[k] : k \in 1..26} \cup {UpperChars[k] : k \in 1..26} \cup Digits \cup {"_"}

\* c.lower()
Lower(c) ==
    IF \E k \in 1..26 : UpperChars[k] = c
    THEN LowerChars[CHOOSE k \in 1..26 : UpperChars[k] = c]
    ELSE c

\* s.lower()
LowerText(s) == [k \in 1..Len(s) |-> Lower(s[k])]

\* \b before position i (1..Len(s)+1)
BoundaryAt(s, i) ==
    (i > 1 /\ s[i - 1] \in WordChars) # (i <= Len(s) /\ s[i] \in WordChars)

\* r'\b' + re.escape(keyword) + r'\b' with re.IGNORECASE matches at i
KeywordMatchAt(s, i, keyword) ==
    /\ i + Len(keyword) - 1 <= Len(s)
    /\ BoundaryAt(s, i)
    /\ \A k \in 1..Len(keyword) : Lower(s[i + k - 1]) = keyword[k]
    /\ BoundaryAt(s, i + Len(keyword))

EmphasisMark == <<"*", "*">>

RECURSIVE EmphasizeFrom(_, _, _)
\* re.sub(pattern, lambda m: "**" + m.group() + "**", s) from position i on
EmphasizeFrom(s, i, keyword) ==
    LET found == {j \in i..Len(s) : KeywordMatchAt(s, j, keyword)}
    IN  IF found = {} THEN SubSeq(s, i, Len(s))
        ELSE LET j == MinOf(found)
             IN  SubSeq(s, i, j - 1)
                     \o EmphasisMark \o SubSeq(s, j, j + Len(keyword) - 1) \o EmphasisMark
                     \o EmphasizeFrom(s, j + Len(keyword), keyword)

RECURSIVE EmphasizeKeywords(_, _)
\* _emphasize_keywords: one re.sub per keyword, in list order
EmphasizeKeywords(text, keywords) ==
    IF keywords = <<>> THEN text
    ELSE EmphasizeKeywords(EmphasizeFrom(text, 1, keywords[1]), Tail(keywords))

obligation_keywords ==
    <<
      <<"s", "h", "a", "l", "l">>,
      <<"m", "u", "s", "t">>,
      <<"r", "e", "q", "u", "i", "r", "e", "d">>,
      <<"o", "b", "l", "i", "g", "a", "t", "i", "o", "n">>,
      <<"d", "u", "t", "y">>,
      <<"r", "e", "s", "p", "o", "n", "s", "i", "b", "l", "e">>,
      <<"l", "i", "a", "b", "l", "e">>,
      <<"c", "o", "v", "e", "n", "a", "n", "t">>,
      <<"u", "n", "d", "e", "r", "t", "a", "k", "e">>,
      <<"a", "g", "r", "e", "e", " ", "t", "o">>,
      <<"c", "o", "m", "m", "i", "t", " ", "t", "o">>
    >>

party_keywords ==
    <<
      <<"p", "a", "r", "t", "y">>,
      <<"p", "a", "r", "t", "i", "e", "s">>,
      <<"c", "l", "i", "e", "n", "t">>,
      <<"c", "o", "n", "t", "r", "a", "c", "t", "o", "r">>,
      <<"v", "e", "n", "d", "o", "r">>,
      <<"s", "u", "p", "p", "l", "i", "e", "r">>,
      <<"b", "u", "y", "e", "r">>,
      <<"s", "e", "l", "l", "e", "r">>,
      <<"l", "e", "s", "s", "o", "r">>,
      <<"l", "e", "s", "s", "e", "e">>,
      <<"l", "i", "c", "e", "n", "s", "o", "r">>,
      <<"l", "i", "c", "e", "n", "s", "e", "e">>,
      <<"p", "l", "a", "i", "n", "t", "i", "f", "f">>,
      <<"d", "e", "f", "e", "n", "d", "a", "n", "t">>,
      <<"c", "o", "m", "p", "a", "n", "y">>,
      <<"c", "o", "r", "p", "o", "r", "a", "t", "i", "o", "n">>,
      <<"i", "n", "d", "i", "v", "i", "d", "u", "a", "l">>
    >>

date_keywords ==
    <<
      <<"d", "a", "t", "e">>,
      <<"d", "e", "a", "d", "l", "i", "n", "e">>,
      <<"d", "u", "e">>,
      <<"e", "x", "p", "i", "r", "e">>,
      <<"e", "x", "p", "i", "r", "e", "s">>,
      <<"t", "e", "r", "m">>,
      <<"p", "e", "r", "i", "o", "d">>,
      <<"d", "u", "r", "a", "t", "i", "o", "n">>,
      <<"c", "o", "m", "m", "e", "n", "c", "e">>,
      <<"t", "e", "r", "m", "i", "n", "a", "t", "e">>,
      <<"e", "f", "f", "e", "c", "t", "i", "v", "e">>,
      <<"w", "i", "t", "h", "i", "n">>,
      <<"b", "y">>,
      <<"b", "e", "f", "o", "r", "e">>,
      <<"a", "f", "t", "e", "r">>
    >>

\* _apply_focus_specific_processing
ApplyFocusSpecificProcessing(text, focus) ==
    IF focus = "obligations" THEN EmphasizeKeywords(text, obligation_keywords)
    ELSE IF focus = "parties" THEN EmphasizeKeywords(text, party_keywords)
    ELSE IF focus = "dates" THEN EmphasizeKeywords(text, date_keywords)
    ELSE text

\* the position of the "**" that closes a span whose content starts at j:
\* the first "**" at or after j, provided no newline lies in between ('.'
\* does not match a newline); 0 when there is none
ClosingMark(s, j) ==
    LET k == NextOccurrence(s, j, EmphasisMark)
    IN  IF k = 0 THEN 0
        ELSE IF \E n \in j..(k - 1) : s[n] = "\n" THEN 0
        ELSE k

RECURSIVE StripEmphasisFrom(_, _)
\* re.sub(r'\*\*(.*?)\*\*', r'\1', s) from position i on
StripEmphasisFrom(s, i) ==
    LET opens == {j \in i..Len(s) : StartsWithAt(s, j, EmphasisMark) /\ ClosingMark(s, j + 2) # 0}
    IN  IF opens = {} THEN SubSeq(s, i, Len(s))
        ELSE LET j == MinOf(opens)
                 k == ClosingMark(s, j + 2)
             IN  SubSeq(s, i, j - 1) \o SubSeq(s, j + 2, k - 1) \o StripEmphasisFrom(s, k + 2)

KeyObligationsLabel == <<"K", "e", "y", " ", "O", "b", "l", "i", "g", "a", "t", "i", "o", "n", "s", ":", " ">>
PartiesInvolvedLabel == <<"P", "a", "r", "t", "i", "e", "s", " ", "I", "n", "v", "o", "l", "v", "e", "d", ":", " ">>
ImportantDatesLabel == <<"I", "m", "p", "o", "r", "t", "a", "n", "t", " ", "D", "a", "t", "e", "s", ":", " ">>

obligation_label_words == << <<"o", "b", "l", "i", "g", "a", "t", "i", "o", "n">>, <<"s", "h", "a", "l", "l">> >>
party_label_words == << <<"p", "a", "r", "t", "y">>, <<"p", "a", "r", "t", "i", "e", "s">>, <<"c", "l", "i", "e", "n", "t">>, <<"c", "o", "n", "t", "r", "a", "c", "t", "o", "r">> >>
date_label_words == << <<"d", "a", "t", "e">>, <<"d", "e", "a", "d", "l", "i", "n", "e">>, <<"d", "u", "e">>, <<"t", "e", "r", "m">> >>

ContainsAny(s, words) == \E k \in 1..Len(words) : Contains(s, words[k])

PostProcessAlwaysLabels(summary, focus) ==
    LET cleaned_summary == StripEmphasisFrom(summary, 1)
    IN  IF focus = "obligations" THEN KeyObligationsLabel \o cleaned_summary
        ELSE IF focus = "parties" THEN PartiesInvolvedLabel \o cleaned_summary
        ELSE IF focus = "dates" THEN ImportantDatesLabel \o cleaned_summary
        ELSE cleaned_summary

\* _post_process_summary
PostProcessSummary(summary, focus) ==
    LET cleaned_summary == StripEmphasisFrom(summary, 1)
        lowered == LowerText(cleaned_summary)
    IN  IF focus = "obligations" /\ ContainsAny(lowered, obligation_label_words)
        THEN KeyObligationsLabel \o cleaned_summary
        ELSE IF focus = "parties" /\ ContainsAny(lowered, party_label_words)
        THEN PartiesInvolvedLabel \o cleaned_summary
        ELSE IF focus = "dates" /\ ContainsAny(lowered, date_label_words)
        THEN ImportantDatesLabel \o cleaned_summary
        ELSE cleaned_summary

----------------------------------------------------------------------------
(* Request parameters                                                      *)

valid_lengths == {"brief", "standard", "detailed"}
valid_focuses == {"general", "obligations", "parties", "dates"}

\* min_words, max_words = 50, 1000
min_words == 50
max_words_limit == 1000

ValidateNoFloor(params) ==
    [length |-> IF params.length \in valid_lengths THEN params.length ELSE "standard",
     focus |-> IF params.focus \in valid_focuses THEN params.focus ELSE "general",
     max_words |-> Min(params.max_words, max_words_limit)]

ValidateSwappedClamp(params) ==
    [length |-> IF params.length \in valid_lengths THEN params.length ELSE "standard",
     focus |-> IF params.focus \in valid_focuses THEN params.focus ELSE "general",
     max_words |-> Min(min_words, Max(params.max_words, max_words_limit))]

\* validate_and_sanitize_params
ValidateAndSanitizeParams(params) ==
    [length    |-> IF params.length \in valid_lengths THEN params.length ELSE "standard",
     focus     |-> IF params.focus \in valid_focuses THEN params.focus ELSE "general",
     max_words |-> Max(min_words, Min(params.max_words, max_words_limit))]

\* _get_focus_adjustments; penalties in tenths
FocusAdjustments(focus) ==
    IF focus = "obligations"
    THEN [length_penalty |-> 12, repetition_penalty |-> 10, no_repeat_ngram_size |-> 2]
    ELSE IF focus = "parties"
    THEN [length_penalty |-> 8, repetition_penalty |-> 12, no_repeat_ngram_size |-> 3]
    ELSE IF focus = "dates"
    THEN [length_penalty |-> 9, repetition_penalty |-> 11, no_repeat_ngram_size |-> 2]
    ELSE [length_penalty |-> 10, repetition_penalty |-> 11]

\* length_params.get(length, length_params["standard"])
LengthParams(length) ==
    IF length = "brief" THEN [max_length |-> 100, min_length |-> 30]
    ELSE IF length = "detailed" THEN [max_length |-> 400, min_length |-> 150]
    ELSE [max_length |-> 200, min_length |-> 80]

\* dict.update: the keys of b override those of a
DictUpdate(a, b) ==
    [k \in DOMAIN a \cup DOMAIN b |-> IF k \in DOMAIN b THEN b[k] ELSE a[k]]

\* _get_summary_length_params
SummaryLengthParams(length, focus) ==
    DictUpdate(DictUpdate(LengthParams(length), FocusAdjustments(focus)),
               [do_sample |-> FALSE, num_beams |-> 4, early_stopping |-> TRUE])

\* _get_default_fallback_params
DefaultFallbackParams ==
    [max_length |-> 150, min_length |-> 50, do_sample |-> FALSE, num_beams |-> 2,
     early_stopping |-> TRUE, length_penalty |-> 10, repetition_penalty |-> 11]

\* _create_focus_prompt: the fixed instruction of the focus, a blank line,
\* the text; the instruction is named by its key in focus_prompts
FocusPrompt(text, focus) ==
    [prompt |-> IF focus \in valid_focuses THEN focus ELSE "general", text |-> text]

NoPromptGeneral(text) == [prompt |-> "general", text |-> text]

\* a call on the bare text
NoPrompt(text) == [prompt |-> "none", text |-> text]


----------------------------------------------------------------------------
(* LegalSummarizer.summarize and its helpers                               *)

ExtractiveTag == <<"[", "E", "x", "t", "r", "a", "c", "t", "i", "v", "e", " ", "S", "u", "m", "m", "a", "r", "y", "]", " ">>
UnableToGenerate == <<"U", "n", "a", "b", "l", "e", " ", "t", "o", " ", "g", "e", "n", "e", "r", "a", "t", "e", " ", "s", "u", "m", "m", "a", "r", "y", ".">>

SentenceCountAlwaysFour(length) == 4

\* sentence_counts.get(params.length, 4)
SentenceCount(length) ==
    IF length = "brief" THEN 2
    ELSE IF length = "detailed" THEN 6
    ELSE 4

\* ' '.join(words[:max_words]) + '...'
TruncateWords(summary, max_words) ==
    Join(Take(SplitWs(summary), max_words), Space) \o Ellipsis

\* _create_emergency_fallback_summary
EmergencyFallbackSummary(original_text, params, original_filename) ==
    LET sentences == Split(original_text, SentenceSep)
        selected_sentences == Take(sentences, SentenceCount(params.length))
        joined == Join(selected_sentences, SentenceSep)
        terminated == IF EndsWith(joined, Period) THEN joined ELSE joined \o Period
        words == SplitWs(terminated)
        fallback_summary == IF Len(words) > params.max_words
                            THEN TruncateWords(terminated, params.max_words)
                            ELSE terminated
    IN  [status |-> "returned",
         path |-> "emergency",
         original_filename |-> original_filename,
         summary_text |-> ExtractiveTag \o fallback_summary,
         word_count |-> Len(SplitWs(fallback_summary)),
         confidence_score |-> 30]

ChunkExtractTwoSentences(chunk) ==
    Join(Take(Split(chunk, SentenceSep), 2), SentenceSep) \o Period

\* the final fallback of a chunk: '. '.join(chunk.split('. ')[:3]) + '.'
ChunkExtract(chunk) ==
    Join(Take(Split(chunk, SentenceSep), 3), SentenceSep) \o Period

ConfidenceScoreNoPenalty(summaries, chunk_list, fallback) ==
    IF chunk_list = <<>> THEN 0
    ELSE Min(100, (Len(summaries) * 100) \div Len(chunk_list))

ConfidenceScoreInvertedPenalty(summaries, chunk_list, fallback) ==
    IF chunk_list = <<>> THEN 0
    ELSE Min(100, (Len(summaries) * (IF fallback THEN 100 ELSE 80)) \div Len(chunk_list))

\* min(1.0, base_confidence * (0.8 if fallback_used else 1.0)), in percent
ConfidenceScore(summaries, chunk_list, fallback) ==
    IF chunk_list = <<>> THEN 0
    ELSE Min(100, (Len(summaries) * (IF fallback THEN 80 ELSE 100)) \div Len(chunk_list))

LengthCapInclusive(summary, max_words) ==
    LET word_count == Len(SplitWs(summary))
    IN  IF word_count >= max_words
        THEN [summary_text |-> TruncateWords(summary, max_words), word_count |-> max_words]
        ELSE [summary_text |-> summary, word_count |-> word_count]

\* the word count and the length constraint of summarize: a summary of more
\* than max_words words is cut to max_words words and marked
LengthCap(summary, max_words) ==
    LET word_count == Len(SplitWs(summary))
    IN  IF word_count > max_words
        THEN [summary_text |-> TruncateWords(summary, max_words), word_count |-> max_words]
        ELSE [summary_text |-> summary, word_count |-> word_count]

\* metadata, word cap and SummaryResult of the normal path, from the
\* post-processed summary
NormalResult(summary, summaries, chunk_list, fallback, params, original_filename) ==
    LET capped == LengthCap(summary, params.max_words)
    IN  [status |-> "returned",
         path |-> "normal",
         original_filename |-> original_filename,
         summary_text |-> capped.summary_text,
         word_count |-> capped.word_count,
         confidence_score |-> ConfidenceScore(summaries, chunk_list, fallback)]

\* the except clause of summarize: re-raise once a fallback was used,
\* otherwise the emergency fallback summary
HandleSummarizeException(original_text, params, original_filename, fallback) ==
    IF fallback
    THEN [status |-> "raised", error |-> "Exception: Failed to generate summary"]
    ELSE EmergencyFallbackSummary(original_text, params, original_filename)

\* tokens added by tokenizer.encode(text) with its default add_special_tokens
SpecialTokens == 2

\* chunk[:200]
slice_length == 200

MergeNeverRechunks(summaries) == FALSE

\* merge_chunk_summaries takes the re-chunking branch
MergeRechunks(summaries) ==
    TokenCount(Join(summaries, Space)) + SpecialTokens > max_chunk_size

MergeInputsNoShortcut(summaries) ==
    IF summaries = <<>> THEN <<>>
    ELSE IF MergeRechunks(summaries)
         THEN chunk_text(Join(summaries, Space), max_chunk_size \div 2)
         ELSE <<Join(summaries, Space)>>

\* the texts merge_chunk_summaries passes to the model, in order
MergeInputs(summaries) ==
    IF Len(summaries) <= 1 THEN <<>>
    ELSE IF MergeRechunks(summaries)
         THEN chunk_text(Join(summaries, Space), max_chunk_size \div 2)
         ELSE <<Join(summaries, Space)>>

\* merge_chunk_summaries, given the outcome of each of its model calls
MergeChunkSummaries(summaries, outs) ==
    IF summaries = <<>> THEN <<>>
    ELSE IF Len(summaries) = 1 THEN summaries[1]
    ELSE LET inputs == MergeInputs(summaries)
         IN  IF MergeRechunks(summaries)
             THEN Join([k \in 1..Len(inputs) |->
                           IF outs[k].ok THEN outs[k].text
                           ELSE Take(inputs[k], slice_length) \o Ellipsis], Space)
             ELSE IF outs[1].ok THEN outs[1].text
                  ELSE Join(summaries, Space)

\* the model calls of merge_chunk_summaries, as they are logged
MergeCalls(summaries, outs) ==
    LET inputs == MergeInputs(summaries)
    IN  [k \in 1..Len(inputs) |->
            [stage |-> IF MergeRechunks(summaries) THEN "merge_chunk" ELSE "merge_direct",
             chunk |-> k,
             input |-> NoPrompt(inputs[k]),
             params |-> IF MergeRechunks(summaries)
                        THEN [max_length |-> 150, min_length |-> 50, do_sample |-> FALSE]
                        ELSE [max_length |-> 200, min_length |-> 100, do_sample |-> FALSE],
             ok |-> outs[k].ok, text |-> outs[k].text]]

----------------------------------------------------------------------------
(* Inputs of summarize                                                     *)

\* n words "w" separated by single blanks
WordsText(n) == Join([k \in 1..n |-> <<"w">>], Space)

SumTexts ==
    { <<>>,
      <<" ">>,
      <<"a", " ", "s", "h", "a", "l", "l", " ", "b", ".", " ", "c", ".", " ", "d", ".", " ", "e", ".", " ", "f">>,
      <<"H", " ", "a", ".", " ", "H", " ", "b", ".", " ", "c">>,
      WordsText(LongWords) \o Period }

\* what the model may generate
ModelOutputs ==
    { <<"s", " ", "t", ".">>,
      <<"a", " ", "*", "*", "s", "h", "a", "l", "l", "*", "*", " ", "b">>,
      WordsText(ScenarioWords),
      WordsText(LongWords) }

ModelFailure == [ok |-> FALSE, text |-> <<>>]

\* outcome of one call of summarizer_pipeline: an exception or a summary_text
ModelOutcomes == {ModelFailure} \cup {[ok |-> TRUE, text |-> o] : o \in ModelOutputs}

SumParams ==
    [length : {"brief", "standard", "detailed", "super_long"},
     focus : {"general", "obligations", "parties", "dates", "random_focus"},
     max_words : {10, 60, 5000}]

Filename == <<"f", ".", "p", "d", "f">>

NoOutcome == [status |-> "none"]

----------------------------------------------------------------------------
(* Inputs of chunk_text                                                    *)

Alphabet == {"a", "H", ".", " "}

\* every text over Alphabet of at most n characters
AllStrings(n) == UNION {[1..k -> Alphabet] : k \in 0..n}

Fragments == {<<"a">>, <<"a", "a">>, <<"H">>}

\* fragments joined by ". ", as a document of n sentences
StructuredTexts(n) ==
    {Join(fs, SentenceSep) : fs \in UNION {[1..k -> Fragments] : k \in 1..n}}

ChunkTexts == AllStrings(MaxLen) \cup StructuredTexts(MaxFrags)

\* largest explicit max_length argument
MaxTokensArg == 3

\* max_length: not given (None) or an explicit budget
MaxLengthArgs ==
    {[given |-> FALSE, value |-> 0]} \cup {[given |-> TRUE, value |-> n] : n \in 0..MaxTokensArg}

NoCall == [status |-> "none"]

NoHelperCall == [fn |-> "none"]

----------------------------------------------------------------------------
(* ErrorHandler.with_retry                                                 *)

max_retries == 3
\* seconds
retry_delay == 1

\* retry_counts = {}
NoRetryCounts == [id \in {} |-> 0]

RetrySleepConstant(count) == retry_delay

\* time.sleep(self.retry_delay * self.retry_counts[operation_id])
RetrySleep(count) == retry_delay * count

\* The while loop of with_retry.  operation[k] is the outcome of the k-th
\* invocation of the operation by this call, count is
\* retry_counts[operation_id], n the number of invocations made and sleeps
\* the sleeps made so far.  The result tells the count the call leaves, the
\* number of invocations, the invocation whose result was returned or whose
\* exception was re-raised (0 for none), and whether the call ended with
\* "Operation ... failed after maximum retries" below the loop.
RECURSIVE RetryLoop(_, _, _, _)
RetryLoop(operation, count, n, sleeps) ==
    IF count < max_retries
    THEN IF operation[n + 1] = "ok"
         THEN [count |-> 0, invocations |-> n + 1, returned |-> n + 1, raised |-> 0,
               exhausted |-> FALSE, sleeps |-> sleeps]
         ELSE IF count + 1 >= max_retries
              THEN [count |-> count + 1, invocations |-> n + 1, returned |-> 0,
                    raised |-> n + 1, exhausted |-> FALSE, sleeps |-> sleeps]
              ELSE RetryLoop(operation, count + 1, n + 1,
                             Append(sleeps, RetrySleep(count + 1)))
    ELSE [count |-> count, invocations |-> n, returned |-> 0, raised |-> 0,
          exhausted |-> TRUE, sleeps |-> sleeps]

\* with_retry(operation, operation_id): an id not in retry_counts starts at 0
WithRetry(counts, operation_id, operation) ==
    RetryLoop(operation,
              IF operation_id \in DOMAIN counts THEN counts[operation_id] ELSE 0,
              0, <<>>)

\* retry_counts after a with_retry call that left count
SetRetryCount(counts, operation_id, count) ==
    [id \in DOMAIN counts \cup {operation_id} |->
        IF id = operation_id THEN count ELSE counts[id]]

----------------------------------------------------------------------------
(* LegalSummarizer.load_model and is_model_loaded                          *)

\* the step of load_model that fails, or none
LoadSteps == {"tokenizer_fails", "model_fails", "pipeline_fails", "ok"}

\* the attributes load_model assigns, and the outcome of the last call
LoadAttrs ==
    [tokenizer |-> tokenizer, model |-> model,
     summarizer_pipeline |-> summarizer_pipeline, load_status |-> load_status]

LoadModelEffectEager(attrs, step) ==
    [tokenizer |-> attrs.tokenizer \/ step # "tokenizer_fails",
     model |-> attrs.model \/ step \in {"pipeline_fails", "ok"},
     summarizer_pipeline |-> attrs.summarizer_pipeline \/ step \in {"pipeline_fails", "ok"},
     load_status |-> IF step = "ok" THEN "ok" ELSE "raised"]

\* one load_model call: the assignments made before the failing step stay
LoadModelEffect(attrs, step) ==
    [tokenizer |-> attrs.tokenizer \/ step # "tokenizer_fails",
     model |-> attrs.model \/ step \in {"pipeline_fails", "ok"},
     summarizer_pipeline |-> attrs.summarizer_pipeline \/ step = "ok",
     load_status |-> IF step = "ok" THEN "ok" ELSE "raised"]

\* is_model_loaded()
is_model_loaded == summarizer_pipeline

\* the attributes after the first n of the load_model invocations steps
RECURSIVE LoadModelRepeated(_, _, _)
LoadModelRepeated(attrs, steps, n) ==
    IF n = 0 THEN attrs
    ELSE LoadModelEffect(LoadModelRepeated(attrs, steps, n - 1), steps[n])

----------------------------------------------------------------------------
(* ProcessingPipeline.process_document                                     *)

\* the handlers of ErrorHandler, by the kind of the exception text
handle_upload_error(error) ==
    IF error = "size"
    THEN "The uploaded file exceeds the 10MB size limit. Please try a smaller file."
    ELSE IF error = "format"
    THEN "Please upload a PDF, DOCX, or TXT file."
    ELSE "There was a problem uploading your file. Please try again."

handle_extraction_error(error) ==
    IF error = "empty"
    THEN "The document appears to be empty or contains no readable text."
    ELSE "Unable to extract text from the document. This may be due to formatting issues."

handle_model_error(error) ==
    IF error = "memory"
    THEN "The document is too large for our AI model to process in one go."
    ELSE "There was an error generating the summary. Our team has been notified."

handle_system_error(error) ==
    "An unexpected system error occurred. Our team has been notified."

\* the branch the except block of process_document takes for a state
ErrorHandlerFor(state) ==
    IF state = "UPLOADING" THEN "handle_upload_error"
    ELSE IF state = "EXTRACTING" THEN "handle_extraction_error"
    ELSE IF state = "SUMMARIZING" THEN "handle_model_error"
    ELSE "handle_system_error"

UserMessage(handler, error) ==
    IF handler = "handle_upload_error" THEN handle_upload_error(error)
    ELSE IF handler = "handle_extraction_error" THEN handle_extraction_error(error)
    ELSE IF handler = "handle_model_error" THEN handle_model_error(error)
    ELSE handle_system_error(error)

\* is_processing()
is_processing == current_state \notin {"IDLE", "COMPLETE", "ERROR"}

NoPipeCall ==
    [number |-> 0, result |-> "none", temp_file_path |-> 0, created |-> 0,
     failed_in |-> "none", error |-> "none", handler |-> "none", message |-> "none",
     stats_before |-> [documents_processed |-> 0, errors_encountered |-> 0]]

----------------------------------------------------------------------------
(* SecurityService: session data                                           *)

\* last value of the clock
MaxTime == 3
\* largest ttl_minutes, in ticks of the clock
MaxTtl == 1

Sessions == {"", "a"}
Keys == {"k"}
Values == {"v", "w"}

\* _session_data = {}
NoSessions == [s \in {} |-> <<>>]
NoEntry == [value |-> "None", expires_at |-> 0]

\* the entries of a session that current_time has not passed
Unexpired(session, current_time) ==
    [k \in {key \in DOMAIN session : ~(current_time > session[key].expires_at)} |-> session[k]]

\* _cleanup_expired_sessions under the lock: expired keys are deleted, and
\* then the sessions left empty
CleanupExpiredSessions(data, current_time) ==
    [s \in {id \in DOMAIN data : DOMAIN Unexpired(data[id], current_time) # {}} |->
        Unexpired(data[s], current_time)]

\* the test "if session_id:" of clear_session_data; None is not given
Truthy(arg) == arg.given /\ arg.session_id # ""

\* clear_session_data(session_id): the data left and the count returned
ClearSessionData(data, arg) ==
    IF Truthy(arg)
    THEN [data |-> [s \in DOMAIN data \ {arg.session_id} |-> data[s]],
          cleared_count |-> IF arg.session_id \in DOMAIN data THEN 1 ELSE 0]
    ELSE [data |-> NoSessions, cleared_count |-> Cardinality(DOMAIN data)]

----------------------------------------------------------------------------
(* RateLimiter                                                             *)

\* RateLimiter(max_requests, window_minutes) as constructed in the model,
\* the window in ticks of the clock
max_requests == 2
window_seconds == 2

Clients == {"c1", "c2"}
Threads == {1, 2}

\* the list comprehension of check_limit: the requests after cutoff_time
RecentRequests(list, cutoff_time) == SelectSeq(list, LAMBDA req_time : req_time > cutoff_time)

----------------------------------------------------------------------------
(* State after construction                                                *)

Init ==
    /\ tokenizer = FALSE
    /\ model = FALSE
    /\ summarizer_pipeline = FALSE
    /\ load_status = "none"
    /\ ct_call = NoCall
    /\ helper_call = NoHelperCall
    /\ pc = "idle"
    /\ document_text = <<>>
    /\ request_params = [length |-> "standard", focus |-> "general", max_words |-> 300]
    /\ validated_params = [length |-> "standard", focus |-> "general", max_words |-> 300]
    /\ doc_chunks = <<>>
    /\ chunk_index = 0
    /\ chunk_summaries = <<>>
    /\ tiers = <<>>
    /\ fallback_used = FALSE
    /\ final_summary = <<>>
    /\ model_calls = <<>>
    /\ faults = {}
    /\ outcome = NoOutcome
    /\ retry_counts = NoRetryCounts
    /\ retry_log = <<>>
    /\ current_state = "IDLE"
    /\ pipe_pc = "idle"
    /\ status_reports = <<>>
    /\ progress_reports = <<>>
    /\ processing_stats = [documents_processed |-> 0, errors_encountered |-> 0]
    /\ pipe_call = NoPipeCall
    /\ pipeline_loads = <<>>
    /\ handler_temp_files = {}
    /\ security_temp_files = {}
    /\ disk_files = {}
    /\ created_files = {}
    /\ clock = 0
    /\ session_data = NoSessions
    /\ stored_entries = [s \in Sessions, k \in Keys |-> NoEntry]
    /\ store_call = [pc |-> "none"]
    /\ cleanup_worker = [pc |-> "waiting", current_time |-> 0]
    /\ session_op = [op |-> "none"]
    /\ session_ops = 0
    /\ requests = [c \in {} |-> <<>>]
    /\ limit_calls = [t \in Threads |-> [pc |-> "none"]]
    /\ limit_log = <<>>

\* load_model: the three from_pretrained / pipeline constructions run in
\* order; the first that fails aborts the call with "Model loading failed",
\* keeping the attributes assigned before it.
LoadModel ==
    \E step \in LoadSteps :
        /\ pc = "idle"
        /\ pipe_pc = "idle"
        /\ tokenizer' = LoadModelEffect(LoadAttrs, step).tokenizer
        /\ model' = LoadModelEffect(LoadAttrs, step).model
        /\ summarizer_pipeline' = LoadModelEffect(LoadAttrs, step).summarizer_pipeline
        /\ load_status' = LoadModelEffect(LoadAttrs, step).load_status
        /\ UNCHANGED <<ct_call, helper_call, sumVars, otherVars>>

\* a direct call chunk_text(text, max_length); chunk_text keeps no state of
\* its own, so one call per behaviour is recorded
ChunkTextCallOn(texts, args) ==
    \E text \in texts, arg \in args :
        LET max_length == EffectiveMaxLength(arg)
        IN  /\ ct_call.status = "none"
            /\ ct_call' =
                 IF ~tokenizer
                 THEN [status |-> "RuntimeError", text |-> text, max_length |-> max_length]
                 ELSE [status |-> "returned", text |-> text, max_length |-> max_length,
                       result |-> ChunkTextFull(text, max_length)]
            /\ UNCHANGED <<loadVars, helper_call, sumVars, otherVars>>

ChunkTextCall == ChunkTextCallOn(ChunkTexts, MaxLengthArgs)

vars == <<loadVars, ct_call, helper_call, sumVars, otherVars>>

NextChunk == LoadModel \/ ChunkTextCall

SpecChunk == Init /\ [][NextChunk]_vars

----------------------------------------------------------------------------
(* summarize, one action per stage; the calls of the model are the points  *)
(* at which the environment chooses an outcome                             *)

\* summarize up to the loop over the chunks: the model check, parameter
\* validation, focus preprocessing, model parameters and chunking.  fault
\* is an exception raised inside the try block by one of these steps.
SummarizeCallOn(texts, paramset) ==
    \E t \in texts, params \in paramset, fault \in BOOLEAN :
        LET validated == ValidateAndSanitizeParams(params)
            processed_text == ApplyFocusSpecificProcessing(t, validated.focus)
        IN  /\ pc = "idle"
            /\ document_text' = t
            /\ request_params' = params
            /\ IF ~summarizer_pipeline
               THEN /\ outcome' = [status |-> "raised", error |-> "RuntimeError: Model not loaded"]
                    /\ pc' = "done"
                    /\ UNCHANGED <<validated_params, doc_chunks, chunk_index, faults>>
               ELSE IF fault \/ ~tokenizer
               THEN /\ validated_params' = validated
                    /\ outcome' = HandleSummarizeException(t, validated, Filename, FALSE)
                    /\ faults' = {"chunking"}
                    /\ pc' = "done"
                    /\ UNCHANGED <<doc_chunks, chunk_index>>
               ELSE /\ validated_params' = validated
                    /\ doc_chunks' = chunk_text(processed_text, max_chunk_size)
                    /\ chunk_index' = 1
                    /\ pc' = "primary"
                    /\ UNCHANGED <<outcome, faults>>
            /\ UNCHANGED <<chunk_summaries, tiers, fallback_used, final_summary, model_calls>>
            /\ UNCHANGED <<loadVars, ct_call, helper_call, otherVars>>

SummarizeCall == SummarizeCallOn(SumTexts, SumParams)

\* the loop moves to the next chunk, or leaves for the merge
NextChunkPc == IF chunk_index = Len(doc_chunks) THEN "merge" ELSE "primary"

\* the call on the prompted chunk with the custom parameters
PrimaryCall ==
    \E r \in ModelOutcomes :
        /\ pc = "primary"
        /\ model_calls' = Append(model_calls,
              [stage |-> "primary", chunk |-> chunk_index,
               input |-> FocusPrompt(doc_chunks[chunk_index], validated_params.focus),
               params |-> SummaryLengthParams(validated_params.length, validated_params.focus),
               ok |-> r.ok, text |-> r.text])
        /\ IF r.ok
           THEN /\ chunk_summaries' = Append(chunk_summaries, r.text)
                /\ tiers' = Append(tiers, 1)
                /\ chunk_index' = chunk_index + 1
                /\ pc' = NextChunkPc
           ELSE /\ pc' = "retry"
                /\ UNCHANGED <<chunk_summaries, tiers, chunk_index>>
        /\ UNCHANGED <<document_text, request_params, validated_params, doc_chunks, fallback_used, final_summary, faults, outcome>>
        /\ UNCHANGED <<loadVars, ct_call, helper_call, otherVars>>

RetryCallKeepsFlag ==
    \E r \in ModelOutcomes :
        /\ pc = "retry"
        /\ model_calls' = Append(model_calls,
              [stage |-> "retry", chunk |-> chunk_index,
               input |-> NoPrompt(doc_chunks[chunk_index]),
               params |-> DefaultFallbackParams,
               ok |-> r.ok, text |-> r.text])
        /\ chunk_summaries' = Append(chunk_summaries,
              IF r.ok THEN r.text ELSE ChunkExtract(doc_chunks[chunk_index]))
        /\ tiers' = Append(tiers, IF r.ok THEN 2 ELSE 3)
        /\ fallback_used' = (fallback_used \/ ~r.ok)
        /\ chunk_index' = chunk_index + 1
        /\ pc' = NextChunkPc
        /\ UNCHANGED <<document_text, request_params, validated_params, doc_chunks, final_summary, faults, outcome>>
        /\ UNCHANGED <<loadVars, ct_call, helper_call, otherVars>>

\* the first fallback, a call on the bare chunk with the default
\* parameters, and when it fails the extractive final fallback
RetryCall ==
    \E r \in ModelOutcomes :
        /\ pc = "retry"
        /\ model_calls' = Append(model_calls,
              [stage |-> "retry", chunk |-> chunk_index,
               input |-> NoPrompt(doc_chunks[chunk_index]),
               params |-> DefaultFallbackParams,
               ok |-> r.ok, text |-> r.text])
        /\ chunk_summaries' = Append(chunk_summaries,
              IF r.ok THEN r.text ELSE ChunkExtract(doc_chunks[chunk_index]))
        /\ tiers' = Append(tiers, IF r.ok THEN 2 ELSE 3)
        /\ fallback_used' = TRUE
        /\ chunk_index' = chunk_index + 1
        /\ pc' = NextChunkPc
        /\ UNCHANGED <<document_text, request_params, validated_params, doc_chunks, final_summary, faults, outcome>>
        /\ UNCHANGED <<loadVars, ct_call, helper_call, otherVars>>

\* the merge of the chunk summaries; fault is an exception that escapes
\* merge_chunk_summaries (the token count of the combined text)
MergeStep ==
    \E fault \in BOOLEAN, outs \in [1..Len(MergeInputs(chunk_summaries)) -> ModelOutcomes] :
        /\ pc = "merge"
        /\ IF Len(chunk_summaries) > 1 /\ fault
           THEN /\ outcome' = HandleSummarizeException(document_text, validated_params, Filename, fallback_used)
                /\ faults' = faults \cup {"merging"}
                /\ pc' = "done"
                /\ UNCHANGED <<final_summary, model_calls>>
           ELSE /\ ~fault
                /\ final_summary' =
                      IF Len(chunk_summaries) > 1 THEN MergeChunkSummaries(chunk_summaries, outs)
                      ELSE IF chunk_summaries # <<>> THEN chunk_summaries[1]
                      ELSE UnableToGenerate
                /\ model_calls' = model_calls \o MergeCalls(chunk_summaries, outs)
                /\ pc' = "post"
                /\ UNCHANGED <<outcome, faults>>
        /\ UNCHANGED <<document_text, request_params, validated_params, doc_chunks, chunk_index, chunk_summaries, tiers, fallback_used>>
        /\ UNCHANGED <<loadVars, ct_call, helper_call, otherVars>>

\* post-processing, metadata, word cap and return; fault is an exception
\* raised by the post-processing
FinishStep ==
    \E fault \in BOOLEAN :
        /\ pc = "post"
        /\ IF fault
           THEN /\ outcome' = HandleSummarizeException(document_text, validated_params, Filename, fallback_used)
                /\ faults' = faults \cup {"post_processing"}
                /\ UNCHANGED final_summary
           ELSE /\ final_summary' = PostProcessSummary(final_summary, validated_params.focus)
                /\ outcome' = NormalResult(PostProcessSummary(final_summary, validated_params.focus),
                                           chunk_summaries, doc_chunks, fallback_used,
                                           validated_params, Filename)
                /\ UNCHANGED faults
        /\ pc' = "done"
        /\ UNCHANGED <<document_text, request_params, validated_params, doc_chunks, chunk_index, chunk_summaries, tiers,
                       fallback_used, model_calls>>
        /\ UNCHANGED <<loadVars, ct_call, helper_call, otherVars>>

Next == LoadModel \/ SummarizeCall \/ PrimaryCall \/ RetryCall \/ MergeStep \/ FinishStep

Spec == Init /\ [][Next]_vars

----------------------------------------------------------------------------
(* Direct calls of the other methods of LegalSummarizer; they keep no      *)
(* state of their own, so one call per behaviour is recorded               *)

\* the SummaryParams a caller may construct
ParamWords == {0 - 1, 0, 10, 49, 50, 51, 300, 999, 1000, 1001, 5000}
ParamInputs ==
    [length : {"brief", "standard", "detailed", "super_long", ""},
     focus : {"general", "obligations", "parties", "dates", "random_focus"},
     max_words : ParamWords]

\* validate_and_sanitize_params(params): the result is a new SummaryParams,
\* the argument is left as it was
ValidateCall ==
    \E params \in ParamInputs :
        /\ helper_call.fn = "none"
        /\ helper_call' = [fn |-> "validate_and_sanitize_params", status |-> "returned",
                           params |-> params, params_after |-> params,
                           result |-> ValidateAndSanitizeParams(params)]
        /\ UNCHANGED <<loadVars, ct_call, sumVars, otherVars>>

MergeSummaryTexts == { <<"a", ".">>, <<"H", " ", "a", ".">>, <<"s">> }
MergeSummaryLists == UNION {[1..k -> MergeSummaryTexts] : k \in 0..MaxSummaries}
HelperOutcomes == {ModelFailure, [ok |-> TRUE, text |-> <<"s", " ", "t", ".">>]}

\* the tokenizer.encode calls of chunk_text(text, max_length)
ChunkTextEncodeCalls(text, max_length) ==
    1 + (IF TokenCount(text) <= max_length THEN 0 ELSE Len(Split(text, SentenceSep)))

\* the tokenizer.encode calls of merge_chunk_summaries(summaries)
MergeTokenizerCalls(summaries) ==
    IF Len(summaries) <= 1 THEN 0
    ELSE 1 + (IF MergeRechunks(summaries)
              THEN ChunkTextEncodeCalls(Join(summaries, Space), max_chunk_size \div 2)
              ELSE 0)

\* merge_chunk_summaries(summaries).  fault is an exception raised by the
\* tokenizer, in the token count of the combined text or in the re-chunking;
\* without a tokenizer the token count raises AttributeError, and without a
\* pipeline every model call raises TypeError inside its try block.
MergeSummariesCall ==
    \E summaries \in MergeSummaryLists, fault \in {"none", "token_count", "rechunk"} :
    \E outs \in [1..Len(MergeInputs(summaries)) -> HelperOutcomes] :
        LET calls == [k \in 1..Len(MergeInputs(summaries)) |->
                         IF summarizer_pipeline THEN outs[k] ELSE ModelFailure]
            failed_calls == {k \in 1..Len(calls) : ~calls[k].ok}
        IN  /\ helper_call.fn = "none"
            /\ helper_call' =
                 IF Len(summaries) <= 1
                 THEN [fn |-> "merge_chunk_summaries", status |-> "returned", summaries |-> summaries,
                       result |-> MergeChunkSummaries(summaries, calls),
                       tokenizer_calls |-> MergeTokenizerCalls(summaries),
                       model_calls |-> IF summarizer_pipeline THEN Len(calls) ELSE 0,
                       failed |-> {}]
                 ELSE IF ~tokenizer \/ fault = "token_count"
                 THEN [fn |-> "merge_chunk_summaries", status |-> "raised", summaries |-> summaries,
                       tokenizer_calls |-> IF tokenizer THEN 1 ELSE 0, model_calls |-> 0,
                       failed |-> {"token_count"}]
                 ELSE IF MergeRechunks(summaries) /\ fault = "rechunk"
                 THEN [fn |-> "merge_chunk_summaries", status |-> "raised", summaries |-> summaries,
                       tokenizer_calls |-> 2, model_calls |-> 0,
                       failed |-> {"rechunk"}]
                 ELSE [fn |-> "merge_chunk_summaries", status |-> "returned", summaries |-> summaries,
                       result |-> MergeChunkSummaries(summaries, calls),
                       tokenizer_calls |-> MergeTokenizerCalls(summaries),
                       model_calls |-> IF summarizer_pipeline THEN Len(calls) ELSE 0,
                       failed |-> IF failed_calls = {} THEN {}
                                  ELSE IF MergeRechunks(summaries) THEN {"chunk_model_call"}
                                  ELSE {"direct_model_call"}]
            /\ UNCHANGED <<loadVars, ct_call, sumVars, otherVars>>

\* texts of one to MaxSentences sentences, with and without a final period
EmergencyTexts ==
    LET sentences == { <<"a">>, <<"b", " ", "c">> }
        joined == {Join(l, SentenceSep) : l \in UNION {[1..k -> sentences] : k \in 1..MaxSentences}}
    IN  {<<>>} \cup joined \cup {t \o Period : t \in joined}

EmergencyParams ==
    [length : {"brief", "standard", "detailed", "super_long"}, focus : {"general"}, max_words : {2, 5, 50}]

\* _create_emergency_fallback_summary(original_text, params, original_filename)
EmergencyFallbackCall ==
    \E original_text \in EmergencyTexts, params \in EmergencyParams :
        /\ helper_call.fn = "none"
        /\ helper_call' = [fn |-> "_create_emergency_fallback_summary", status |-> "returned",
                           original_text |-> original_text, params |-> params,
                           result |-> EmergencyFallbackSummary(original_text, params, Filename)]
        /\ UNCHANGED <<loadVars, ct_call, sumVars, otherVars>>

\* words of the summaries and texts of the focus processing: keywords in
\* either case, a neutral word, a stray marker and an emphasized keyword
PostTokens == { <<"S", "h", "a", "l", "l">>, <<"m", "u", "s", "t">>, <<"c", "l", "i", "e", "n", "t">>, <<"d", "e", "a", "d", "l", "i", "n", "e">>, <<"x">>, <<"*", "*">>, <<"*", "*", "d", "u", "e", "*", "*">> }
PostSummaries ==
    {Join(l, Space) : l \in UNION {[1..k -> PostTokens] : k \in 0..MaxPostTokens}}
PostFocuses == {"general", "obligations", "parties", "dates", "random_focus"}

\* _post_process_summary(summary, focus)
PostProcessCall ==
    \E summary \in PostSummaries, focus \in PostFocuses :
        /\ helper_call.fn = "none"
        /\ helper_call' = [fn |-> "_post_process_summary", status |-> "returned",
                           summary |-> summary, focus |-> focus,
                           result |-> PostProcessSummary(summary, focus)]
        /\ UNCHANGED <<loadVars, ct_call, sumVars, otherVars>>

\* _post_process_summary(_apply_focus_specific_processing(text, focus), focus)
FocusRoundTripCall ==
    \E text \in PostSummaries, focus \in PostFocuses :
        LET emphasized == ApplyFocusSpecificProcessing(text, focus)
        IN  /\ helper_call.fn = "none"
            /\ helper_call' = [fn |-> "focus_round_trip", status |-> "returned",
                               text |-> text, focus |-> focus, emphasized |-> emphasized,
                               result |-> PostProcessSummary(emphasized, focus)]
            /\ UNCHANGED <<loadVars, ct_call, sumVars, otherVars>>

NextHelpers ==
    LoadModel \/ ValidateCall \/ MergeSummariesCall \/ EmergencyFallbackCall \/ PostProcessCall
        \/ FocusRoundTripCall

SpecHelpers == Init /\ [][NextHelpers]_vars

----------------------------------------------------------------------------
(* Calls of ErrorHandler.with_retry and reset_retry_count                  *)

\* number of calls made to the error handler in one behaviour
MaxRetryCalls == 3

\* the operation ids of the pipeline stages
OperationIds == {"document_validation", "model_loading"}

\* an operation is told by the outcome of each of its invocations
Operations == [1..max_retries -> {"ok", "fail"}]

WithRetryCall ==
    \E operation_id \in OperationIds, operation \in Operations :
        LET run == WithRetry(retry_counts, operation_id, operation)
        IN  /\ Len(retry_log) < MaxRetryCalls
            /\ retry_counts' = SetRetryCount(retry_counts, operation_id, run.count)
            /\ retry_log' = Append(retry_log,
                   [call |-> "with_retry", operation_id |-> operation_id,
                    operation |-> operation,
                    before |-> IF operation_id \in DOMAIN retry_counts
                               THEN retry_counts[operation_id] ELSE 0,
                    after |-> run.count, invocations |-> run.invocations,
                    returned |-> run.returned, raised |-> run.raised,
                    exhausted |-> run.exhausted, sleeps |-> run.sleeps])
            /\ UNCHANGED <<loadVars, ct_call, helper_call, sumVars, pipeVars, fileVars, clock, sessVars, rateVars>>

\* reset_retry_count(operation_id) for a recorded id; for any other id it
\* changes nothing
ResetRetryCount ==
    \E operation_id \in DOMAIN retry_counts :
        /\ Len(retry_log) < MaxRetryCalls
        /\ retry_counts' = [id \in DOMAIN retry_counts \ {operation_id} |-> retry_counts[id]]
        /\ retry_log' = Append(retry_log,
               [call |-> "reset_retry_count", operation_id |-> operation_id])
        /\ UNCHANGED <<loadVars, ct_call, helper_call, sumVars, pipeVars, fileVars, clock, sessVars, rateVars>>

NextRetry == WithRetryCall \/ ResetRetryCount

SpecRetry == Init /\ [][NextRetry]_vars

----------------------------------------------------------------------------
(* ProcessingPipeline.process_document, one action per stage.  The stage   *)
(* operations are called through with_retry; the environment chooses the   *)
(* outcome of each of their invocations.                                   *)

\* number of process_document calls in one behaviour
MaxDocuments == 2

\* an operation that raises at no invocation
NeverRaises == [k \in 1..max_retries |-> "ok"]

\* the exception of a with_retry call that returned nothing
RetryError(run, error) == IF run.exhausted THEN "retries_exhausted" ELSE error

\* an exception leaves the try block in the current state
Raise(error) ==
    /\ pipe_call' = [pipe_call EXCEPT !.failed_in = current_state, !.error = error]
    /\ pipe_pc' = "except"
    /\ UNCHANGED <<current_state, status_reports, progress_reports, processing_stats>>

UpdateProcessingStatsNoCount(stats) == stats

\* _update_processing_stats
UpdateProcessingStats(stats) == [stats EXCEPT !.documents_processed = @ + 1]

\* process_document up to the validation: status UPLOADING, progress 5
ProcessDocument ==
    /\ pipe_pc = "idle"
    /\ pc \in {"idle", "done"}
    /\ pipe_call.number < MaxDocuments
    /\ current_state' = "UPLOADING"
    /\ status_reports' = <<"UPLOADING">>
    /\ progress_reports' = <<5>>
    /\ pipe_call' = [NoPipeCall EXCEPT !.number = pipe_call.number + 1,
                                       !.result = "running",
                                       !.stats_before = processing_stats]
    /\ pipe_pc' = "validate"
    /\ UNCHANGED <<processing_stats, pipeline_loads, fileVars, retryVars>>
    /\ UNCHANGED <<loadVars, ct_call, helper_call, sumVars, clock, sessVars, rateVars>>

\* _validate_document; validate_file returns its verdict and never raises
ValidateStep ==
    \E verdict \in {"valid", "format", "size", "empty", "invalid_name"} :
        LET run == WithRetry(retry_counts, "document_validation", NeverRaises)
        IN  /\ pipe_pc = "validate"
            /\ retry_counts' = SetRetryCount(retry_counts, "document_validation", run.count)
            /\ IF run.returned = 0
               THEN Raise(RetryError(run, "validation_failed"))
               ELSE IF verdict # "valid"
               THEN Raise(verdict)
               ELSE /\ progress_reports' = Append(progress_reports, 10)
                    /\ pipe_pc' = "save"
                    /\ UNCHANGED <<current_state, status_reports, processing_stats, pipe_call>>
            /\ UNCHANGED <<pipeline_loads, fileVars, retry_log>>
            /\ UNCHANGED <<loadVars, ct_call, helper_call, sumVars, clock, sessVars, rateVars>>

\* _save_temp_file; save_temp_file returns the path, or None when its own
\* validation rejects the file or when an exception occurs: before the file
\* is created, or after create_secure_temp_file created and registered it
SaveStep ==
    \E saved \in {"saved", "rejected", "write_failed"} :
        LET run == WithRetry(retry_counts, "temp_file_save", NeverRaises)
            file == Cardinality(created_files) + 1
        IN  /\ pipe_pc = "save"
            /\ retry_counts' = SetRetryCount(retry_counts, "temp_file_save", run.count)
            /\ IF run.returned = 0
               THEN /\ Raise(RetryError(run, "save_failed"))
                    /\ UNCHANGED fileVars
               ELSE IF saved = "rejected"
               THEN /\ Raise("save_failed")
                    /\ UNCHANGED fileVars
               ELSE IF saved = "write_failed"
               THEN /\ pipe_call' = [pipe_call EXCEPT !.failed_in = current_state,
                                                      !.error = "save_failed",
                                                      !.created = file]
                    /\ pipe_pc' = "except"
                    /\ created_files' = created_files \cup {file}
                    /\ disk_files' = disk_files \cup {file}
                    /\ security_temp_files' = security_temp_files \cup {file}
                    /\ UNCHANGED <<handler_temp_files, current_state, status_reports,
                                   progress_reports, processing_stats>>
               ELSE /\ pipe_call' = [pipe_call EXCEPT !.temp_file_path = file, !.created = file]
                    /\ created_files' = created_files \cup {file}
                    /\ disk_files' = disk_files \cup {file}
                    /\ security_temp_files' = security_temp_files \cup {file}
                    /\ handler_temp_files' = handler_temp_files \cup {file}
                    /\ current_state' = "EXTRACTING"
                    /\ status_reports' = Append(status_reports, "EXTRACTING")
                    /\ progress_reports' = progress_reports \o <<20, 25>>
                    /\ pipe_pc' = "extract"
                    /\ UNCHANGED processing_stats
            /\ UNCHANGED <<pipeline_loads, retry_log>>
            /\ UNCHANGED <<loadVars, ct_call, helper_call, sumVars, clock, sessVars, rateVars>>

\* _extract_text and _validate_legal_content, up to status SUMMARIZING and
\* progress 45
ExtractStep ==
    \E operation \in Operations, content \in {"legal", "not_legal", "blank"} :
        LET run == WithRetry(retry_counts, "text_extraction", operation)
        IN  /\ pipe_pc = "extract"
            /\ retry_counts' = SetRetryCount(retry_counts, "text_extraction", run.count)
            /\ IF run.returned = 0
               THEN Raise(RetryError(run, "extraction_failed"))
               ELSE IF content = "blank"
               THEN Raise("no_text")
               ELSE /\ current_state' = "SUMMARIZING"
                    /\ status_reports' =
                          status_reports
                          \o (IF content = "not_legal" THEN <<"EXTRACTING">> ELSE <<>>)
                          \o <<"SUMMARIZING">>
                    /\ progress_reports' = progress_reports \o <<35, 40, 45>>
                    /\ pipe_pc' = "ensure_model"
                    /\ UNCHANGED <<processing_stats, pipe_call>>
            /\ UNCHANGED <<pipeline_loads, fileVars, retry_log>>
            /\ UNCHANGED <<loadVars, ct_call, helper_call, sumVars, clock, sessVars, rateVars>>

\* the invocations of load_model a with_retry call made, as they are logged
LoadLog(attrs, steps, n) ==
    [k \in 1..n |->
        [loaded_before |-> LoadModelRepeated(attrs, steps, k - 1).summarizer_pipeline,
         ok |-> steps[k] = "ok"]]

\* "if not self.summarizer.is_model_loaded()": status SUMMARIZING,
\* _load_model, progress 60
EnsureModelStep ==
    \E steps \in [1..max_retries -> LoadSteps] :
        LET run == WithRetry(retry_counts, "model_loading",
                             [k \in 1..max_retries |-> IF steps[k] = "ok" THEN "ok" ELSE "fail"])
            attrs == LoadModelRepeated(LoadAttrs, steps, run.invocations)
        IN  /\ pipe_pc = "ensure_model"
            /\ IF is_model_loaded
               THEN /\ pipe_pc' = "summarize"
                    /\ UNCHANGED <<loadVars, retry_counts, pipeline_loads, status_reports,
                                   progress_reports, pipe_call>>
               ELSE /\ retry_counts' = SetRetryCount(retry_counts, "model_loading", run.count)
                    /\ tokenizer' = attrs.tokenizer
                    /\ model' = attrs.model
                    /\ summarizer_pipeline' = attrs.summarizer_pipeline
                    /\ load_status' = attrs.load_status
                    /\ pipeline_loads' =
                          pipeline_loads \o LoadLog(LoadAttrs, steps, run.invocations)
                    /\ IF run.returned = 0
                       THEN /\ pipe_call' = [pipe_call EXCEPT
                                  !.failed_in = current_state,
                                  !.error = RetryError(run, "load_failed")]
                            /\ pipe_pc' = "except"
                            /\ status_reports' = Append(status_reports, "SUMMARIZING")
                            /\ UNCHANGED progress_reports
                       ELSE /\ status_reports' = Append(status_reports, "SUMMARIZING")
                            /\ progress_reports' = Append(progress_reports, 60)
                            /\ pipe_pc' = "summarize"
                            /\ UNCHANGED pipe_call
            /\ UNCHANGED <<current_state, processing_stats, fileVars, retry_log>>
            /\ UNCHANGED <<ct_call, helper_call, sumVars, clock, sessVars, rateVars>>

\* _generate_summary, and on its return progress 90, status COMPLETE,
\* progress 100 and _update_processing_stats
GenerateSummaryStep ==
    \E operation \in Operations :
        LET run == WithRetry(retry_counts, "summary_generation", operation)
        IN  /\ pipe_pc = "summarize"
            /\ retry_counts' = SetRetryCount(retry_counts, "summary_generation", run.count)
            /\ IF run.returned = 0
               THEN /\ pipe_call' = [pipe_call EXCEPT
                          !.failed_in = current_state,
                          !.error = RetryError(run, "summarize_failed")]
                    /\ pipe_pc' = "except"
                    /\ status_reports' = Append(status_reports, "SUMMARIZING")
                    /\ UNCHANGED <<current_state, progress_reports, processing_stats>>
               ELSE /\ current_state' = "COMPLETE"
                    /\ status_reports' = status_reports \o <<"SUMMARIZING", "COMPLETE">>
                    /\ progress_reports' = progress_reports \o <<90, 100>>
                    /\ processing_stats' = UpdateProcessingStats(processing_stats)
                    /\ pipe_call' = [pipe_call EXCEPT !.result = "returned"]
                    /\ pipe_pc' = "finally"
            /\ UNCHANGED <<pipeline_loads, fileVars, retry_log>>
            /\ UNCHANGED <<loadVars, ct_call, helper_call, sumVars, clock, sessVars, rateVars>>

\* the except block: _update_status(ERROR) assigns current_state, then
\* progress 0 and the error count, then the branch on self.current_state,
\* then the raise of the handler's message
ExceptStep ==
    LET handler == ErrorHandlerFor(current_state')
    IN  /\ pipe_pc = "except"
        /\ current_state' = "ERROR"
        /\ status_reports' = Append(status_reports, "ERROR")
        /\ progress_reports' = Append(progress_reports, 0)
        /\ processing_stats' = [processing_stats EXCEPT !.errors_encountered = @ + 1]
        /\ pipe_call' = [pipe_call EXCEPT !.handler = handler,
                                          !.message = UserMessage(handler, pipe_call.error),
                                          !.result = "raised"]
        /\ pipe_pc' = "finally"
        /\ UNCHANGED <<pipeline_loads, fileVars, retryVars>>
        /\ UNCHANGED <<loadVars, ct_call, helper_call, sumVars, clock, sessVars, rateVars>>

\* DocumentHandler.cleanup_temp_files: every tracked file that exists is
\* handed to SecurityService.cleanup_temp_files, which deletes it, unless
\* both unlink attempts of _secure_delete_file fail (survivors), and drops
\* it from its own list; then the handler's list is cleared
CleanupTempFiles(survivors) ==
    /\ disk_files' = disk_files \ ((handler_temp_files \cap disk_files) \ survivors)
    /\ security_temp_files' = security_temp_files \ (handler_temp_files \cap disk_files)
    /\ handler_temp_files' = {}
    /\ UNCHANGED created_files

\* the finally block: cleanup only when temp_file_path is set
FinallyStep ==
    \E survivors \in SUBSET (handler_temp_files \cap disk_files) :
        /\ pipe_pc = "finally"
        /\ IF pipe_call.temp_file_path # 0
           THEN CleanupTempFiles(survivors)
           ELSE /\ survivors = {}
                /\ UNCHANGED fileVars
        /\ pipe_pc' = "idle"
        /\ UNCHANGED <<current_state, status_reports, progress_reports, processing_stats,
                       pipe_call, pipeline_loads, retryVars>>
        /\ UNCHANGED <<loadVars, ct_call, helper_call, sumVars, clock, sessVars, rateVars>>

\* ProcessingPipeline.cleanup(), between two process_document calls
PipelineCleanup ==
    \E survivors \in SUBSET (handler_temp_files \cap disk_files) :
        /\ pipe_pc = "idle"
        /\ current_state # "IDLE"
        /\ CleanupTempFiles(survivors)
        /\ current_state' = "IDLE"
        /\ UNCHANGED <<pipe_pc, status_reports, progress_reports, processing_stats,
                       pipe_call, pipeline_loads, retryVars>>
        /\ UNCHANGED <<loadVars, ct_call, helper_call, sumVars, clock, sessVars, rateVars>>

\* the document of the direct calls made between process_document calls
ShortText == <<"a", " ", "b", ".">>

\* chunk_text(text) called directly, in any load state
ChunkTextBetween ==
    /\ pipe_pc = "idle"
    /\ ChunkTextCallOn({ShortText}, {[given |-> FALSE, value |-> 0]})

\* summarize(text, params, filename) called directly while is_model_loaded()
\* is false
SummarizeUnloaded ==
    /\ pipe_pc = "idle"
    /\ ~is_model_loaded
    /\ SummarizeCallOn({ShortText},
                       {[length |-> "standard", focus |-> "general", max_words |-> 300]})

NextPipeline ==
    \/ ProcessDocument \/ ValidateStep \/ SaveStep \/ ExtractStep \/ EnsureModelStep
    \/ GenerateSummaryStep \/ ExceptStep \/ FinallyStep \/ PipelineCleanup
    \/ LoadModel \/ ChunkTextBetween \/ SummarizeUnloaded

SpecPipeline == Init /\ [][NextPipeline]_vars

----------------------------------------------------------------------------
(* Calls of the SecurityService session store, and its cleanup thread      *)

\* number of calls made to the session store in one behaviour
MaxSessionOps == 3

Tick ==
    /\ clock < MaxTime
    /\ clock' = clock + 1
    /\ UNCHANGED <<loadVars, ct_call, helper_call, sumVars, retryVars, pipeVars, fileVars,
                   sessVars, rateVars>>

\* store_session_data up to the lock: expiry_time = datetime.now() + ttl
StoreSessionDataBegin ==
    \E s \in Sessions, k \in Keys, v \in Values, ttl \in 0..MaxTtl :
        /\ store_call.pc = "none"
        /\ session_ops < MaxSessionOps
        /\ session_ops' = session_ops + 1
        /\ store_call' = [pc |-> "lock", session_id |-> s, key |-> k, value |-> v,
                          expiry_time |-> clock + ttl]
        /\ UNCHANGED <<session_data, stored_entries, cleanup_worker, session_op>>
        /\ UNCHANGED <<loadVars, ct_call, helper_call, sumVars, retryVars, pipeVars, fileVars,
                       clock, rateVars>>

\* store_session_data under the lock
StoreSessionDataWrite ==
    LET s == store_call.session_id
        entry == [value |-> store_call.value, expires_at |-> store_call.expiry_time]
        session == IF s \in DOMAIN session_data THEN session_data[s] ELSE <<>>
    IN  /\ store_call.pc = "lock"
        /\ session_data' =
              [id \in DOMAIN session_data \cup {s} |->
                  IF id = s
                  THEN [k \in DOMAIN session \cup {store_call.key} |->
                           IF k = store_call.key THEN entry ELSE session[k]]
                  ELSE session_data[id]]
        /\ stored_entries' = [stored_entries EXCEPT ![s, store_call.key] = entry]
        /\ store_call' = [pc |-> "none"]
        /\ session_op' = [op |-> "store"]
        /\ UNCHANGED <<cleanup_worker, session_ops>>
        /\ UNCHANGED <<loadVars, ct_call, helper_call, sumVars, retryVars, pipeVars, fileVars,
                       clock, rateVars>>

\* get_session_data(session_id, key), all of it under the lock
GetSessionData ==
    \E s \in Sessions, k \in Keys :
        LET present == s \in DOMAIN session_data /\ k \in DOMAIN session_data[s]
            expired == present /\ clock > session_data[s][k].expires_at
        IN  /\ store_call.pc = "none"
            /\ session_ops < MaxSessionOps
            /\ session_ops' = session_ops + 1
            /\ session_data' =
                  IF expired
                  THEN [session_data EXCEPT ![s] = [key \in DOMAIN @ \ {k} |-> @[key]]]
                  ELSE session_data
            /\ session_op' =
                  [op |-> "get", session_id |-> s, key |-> k, time |-> clock,
                   result |-> IF present /\ ~expired THEN session_data[s][k].value ELSE "None"]
            /\ UNCHANGED <<stored_entries, store_call, cleanup_worker>>
            /\ UNCHANGED <<loadVars, ct_call, helper_call, sumVars, retryVars, pipeVars,
                           fileVars, clock, rateVars>>

\* the arguments of clear_session_data: a session id, or None
ClearArgs ==
    {[given |-> TRUE, session_id |-> s] : s \in Sessions}
    \cup {[given |-> FALSE, session_id |-> ""]}

\* what the entries stored and not cleared become by clear_session_data(arg)
\* as it is documented: those of the session given, or all for None
ClearedEntries(arg) ==
    [s \in Sessions, k \in Keys |->
        IF ~arg.given \/ s = arg.session_id THEN NoEntry ELSE stored_entries[s, k]]

ClearSessionDataCall ==
    \E arg \in ClearArgs :
        LET cleared == ClearSessionData(session_data, arg)
        IN  /\ store_call.pc = "none"
            /\ session_ops < MaxSessionOps
            /\ session_ops' = session_ops + 1
            /\ session_data' = cleared.data
            /\ stored_entries' = ClearedEntries(arg)
            /\ session_op' = [op |-> "clear", arg |-> arg, result |-> cleared.cleared_count,
                              before |-> session_data, after |-> cleared.data]
            /\ UNCHANGED <<store_call, cleanup_worker>>
            /\ UNCHANGED <<loadVars, ct_call, helper_call, sumVars, retryVars, pipeVars,
                           fileVars, clock, rateVars>>

\* _cleanup_expired_sessions: current_time is read before the lock is taken
CleanupWorkerStep ==
    /\ IF cleanup_worker.pc = "waiting"
       THEN /\ cleanup_worker' = [pc |-> "lock", current_time |-> clock]
            /\ UNCHANGED session_data
       ELSE /\ cleanup_worker' = [cleanup_worker EXCEPT !.pc = "waiting"]
            /\ session_data' = CleanupExpiredSessions(session_data, cleanup_worker.current_time)
    /\ UNCHANGED <<stored_entries, store_call, session_op, session_ops>>
    /\ UNCHANGED <<loadVars, ct_call, helper_call, sumVars, retryVars, pipeVars, fileVars,
                   clock, rateVars>>

NextSession ==
    \/ Tick \/ StoreSessionDataBegin \/ StoreSessionDataWrite \/ GetSessionData
    \/ ClearSessionDataCall \/ CleanupWorkerStep

SpecSession == Init /\ [][NextSession]_vars

----------------------------------------------------------------------------
(* Calls of RateLimiter.check_limit from several threads                   *)

\* number of check_limit calls in one behaviour
MaxLimitCalls == 5

\* check_limit up to the lock: current_time = time.time()
CheckLimitBegin ==
    \E t \in Threads, client_id \in Clients :
        /\ limit_calls[t].pc = "none"
        /\ Len(limit_log) + Cardinality({u \in Threads : limit_calls[u].pc = "lock"})
              < MaxLimitCalls
        /\ limit_calls' = [limit_calls EXCEPT
              ![t] = [pc |-> "lock", client_id |-> client_id, current_time |-> clock]]
        /\ UNCHANGED <<requests, limit_log>>
        /\ UNCHANGED <<loadVars, ct_call, helper_call, sumVars, retryVars, pipeVars, fileVars,
                       clock, sessVars>>

\* check_limit under the lock
CheckLimitDecide ==
    \E t \in Threads :
        LET call == limit_calls[t]
            client_id == call.client_id
            recent == RecentRequests(
                         IF client_id \in DOMAIN requests THEN requests[client_id] ELSE <<>>,
                         call.current_time - window_seconds)
            allowed == ~(Len(recent) >= max_requests)
        IN  /\ call.pc = "lock"
            /\ requests' =
                  [c \in DOMAIN requests \cup {client_id} |->
                      IF c = client_id
                      THEN (IF allowed THEN Append(recent, call.current_time) ELSE recent)
                      ELSE requests[c]]
            /\ limit_calls' = [limit_calls EXCEPT ![t] = [pc |-> "none"]]
            /\ limit_log' = Append(limit_log,
                  [client_id |-> client_id, thread |-> t, current_time |-> call.current_time,
                   returned_at |-> clock, result |-> allowed,
                   recorded |-> IF allowed THEN Len(recent) + 1 ELSE Len(recent)])
            /\ UNCHANGED <<loadVars, ct_call, helper_call, sumVars, retryVars, pipeVars,
                           fileVars, clock, sessVars>>

NextRate == Tick \/ CheckLimitBegin \/ CheckLimitDecide

SpecRate == Init /\ [][NextRate]_vars

----------------------------------------------------------------------------
(* Properties of summarize                                                 *)

Done == pc = "done"
SummaryReturned == outcome.status = "returned"
NonEmptyText == Strip(document_text) # <<>>
EmptyText == Strip(document_text) = <<>>

\* C1: with the model loaded and a non-empty text, summarize returns a
\* SummaryResult and never raises, whatever the outcomes of the model
\* calls, the retries, chunking, merging and post-processing.
SummarizeNeverRaises ==
    (Done /\ summarizer_pipeline /\ NonEmptyText) => SummaryReturned

\* C2: with the model loaded, summarize on an empty or whitespace-only
\* text raises EmptyInputError, calls the model not once and returns no
\* SummaryResult.
EmptyInputRejected ==
    (pc # "idle" /\ summarizer_pipeline /\ EmptyText) =>
        /\ model_calls = <<>>
        /\ Done => outcome = [status |-> "raised", error |-> "EmptyInputError"]

\* every generation call of the run failed, and nothing else did
ModelAlwaysFails ==
    /\ Done
    /\ summarizer_pipeline
    /\ NonEmptyText
    /\ faults = {}
    /\ model_calls # <<>>
    /\ \A k \in 1..Len(model_calls) : ~model_calls[k].ok

TagOnly == <<"[", "E", "x", "t", "r", "a", "c", "t", "i", "v", "e", " ", "S", "u", "m", "m", "a", "r", "y", "]">>

\* C3 as stated: when every model generation call fails, the result starts
\* with "[Extractive Summary]" and has confidence_score 0.3.
ExtractiveTagWhenModelAlwaysFails ==
    ModelAlwaysFails =>
        /\ SummaryReturned
        /\ StartsWith(outcome.summary_text, TagOnly)
        /\ outcome.confidence_score = 30

\* the first three ". "-separated sentences of a chunk, rejoined with ". "
\* and terminated by "."
FirstThreeSentences(chunk) ==
    LET parts == Split(chunk, SentenceSep)
        n == IF Len(parts) < 3 THEN Len(parts) ELSE 3
    IN  Join(SubSeq(parts, 1, n), SentenceSep) \o Period

\* C3 amended: when every model generation call fails, summarize returns
\* the result of the normal path, built from the three-sentence extracts of
\* the chunks with no "[Extractive Summary]" tag prepended, and with
\* confidence_score 0.8.
DegradedResultWhenModelAlwaysFails ==
    ModelAlwaysFails =>
        /\ SummaryReturned
        /\ outcome.path = "normal"
        /\ outcome.confidence_score = 80
        /\ ~StartsWith(outcome.summary_text, TagOnly)
        /\ Len(chunk_summaries) = Len(doc_chunks)
        /\ \A k \in 1..Len(doc_chunks) : chunk_summaries[k] = FirstThreeSentences(doc_chunks[k])

\* every call failed on a document of several chunks, merge call included
ModelAlwaysFailsWitness ==
    /\ ModelAlwaysFails
    /\ Len(doc_chunks) >= 2
    /\ \E k \in 1..Len(model_calls) : model_calls[k].stage \in {"merge_direct", "merge_chunk"}
    /\ outcome.confidence_score = 80

SomeChunkExtracted == \E k \in 1..Len(tiers) : tiers[k] = 3

\* C4: a chunk whose custom call and default-parameter retry both failed
\* is summarized by its first three ". "-separated sentences rejoined with
\* ". " and terminated by "."; the run then ends on the normal path, never
\* in the emergency fallback, and a single-chunk document gets
\* confidence_score 0.8.
ChunkExtractiveFallback ==
    /\ \A k \in 1..Len(tiers) :
          tiers[k] = 3 => chunk_summaries[k] = FirstThreeSentences(doc_chunks[k])
    /\ (Done /\ SomeChunkExtracted /\ SummaryReturned) => outcome.path = "normal"
    /\ (Done /\ SomeChunkExtracted /\ faults = {}) => SummaryReturned
    /\ (Done /\ SummaryReturned /\ Len(doc_chunks) = 1 /\ tiers = <<3>>)
          => outcome.confidence_score = 80

\* a single chunk of more than three sentences was extracted and returned
ChunkExtractiveFallbackWitness ==
    /\ Done
    /\ SummaryReturned
    /\ tiers = <<3>>
    /\ Len(Split(doc_chunks[1], SentenceSep)) > 3
    /\ outcome.path = "normal"
    /\ outcome.confidence_score = 80

\* C9: every SummaryResult returned by summarize, on the normal path and
\* on the emergency-fallback path, has word_count equal to the number of
\* whitespace-separated words of its summary_text.
WordCountMatchesSummary ==
    SummaryReturned => outcome.word_count = Len(SplitWs(outcome.summary_text))

\* C10: every SummaryResult returned by summarize has at most max_words
\* (sanitized) words in summary_text, and a summary that had more is cut to
\* exactly max_words words and ends with "...".
SummaryWithinMaxWords ==
    SummaryReturned =>
        /\ Len(SplitWs(outcome.summary_text)) <= validated_params.max_words
        /\ (outcome.path = "normal" /\ Len(SplitWs(final_summary)) > validated_params.max_words)
              => /\ Len(SplitWs(outcome.summary_text)) = validated_params.max_words
                 /\ EndsWith(outcome.summary_text, Ellipsis)

NormalReturn == Done /\ SummaryReturned /\ outcome.path = "normal"

\* a request with max_words = 10 on a document of one chunk, for which the
\* model generated the given summary
WordLimitScenario(generated) ==
    /\ NormalReturn
    /\ request_params.max_words = 10
    /\ chunk_summaries = <<generated>>

\* C11 as stated: a request with max_words = 10 whose model output has 40
\* words returns word_count 10 and a summary_text that ends with "...".
ScenarioFCutToTen ==
    WordLimitScenario(WordsText(ScenarioWords)) =>
        /\ outcome.word_count = 10
        /\ EndsWith(outcome.summary_text, Ellipsis)

\* C11 amended: a request with max_words = 10 is served with the limit
\* sanitized to 50; a model output of 40 words is returned whole, with
\* word_count 40 and no "..." appended, and a model output of more than 50
\* words is cut to word_count 50 and ends with "...".
ScenarioFSanitizedLimit ==
    /\ WordLimitScenario(WordsText(ScenarioWords)) =>
          /\ outcome.summary_text = WordsText(ScenarioWords)
          /\ outcome.word_count = ScenarioWords
          /\ ~EndsWith(outcome.summary_text, Ellipsis)
    /\ WordLimitScenario(WordsText(LongWords)) =>
          /\ outcome.word_count = 50
          /\ Len(SplitWs(outcome.summary_text)) = 50
          /\ EndsWith(outcome.summary_text, Ellipsis)

\* the 40-word output of the primary call was returned for max_words = 10
ScenarioFWitness ==
    /\ WordLimitScenario(WordsText(ScenarioWords))
    /\ tiers = <<1>>
    /\ validated_params.max_words = 50
    /\ outcome.word_count = ScenarioWords

\* at least one chunk was summarized by a fallback tier
Degraded == \E k \in 1..Len(tiers) : tiers[k] # 1
\* the chunks summarized by the primary call
CleanChunks == {k \in 1..Len(tiers) : tiers[k] = 1}
PenaltyFactor == IF Degraded THEN 80 ELSE 100

\* C13 as stated: the confidence_score of a normally completed run is the
\* fraction of the chunks summarized without any fallback tier, times 0.8
\* if a chunk was degraded and times 1.0 otherwise.
ConfidenceIsCleanFraction ==
    NormalReturn =>
        outcome.confidence_score * Len(doc_chunks) = Cardinality(CleanChunks) * PenaltyFactor

\* C13 amended: the confidence_score of a normally completed run is the
\* fraction of the chunks for which a summary was produced by any tier,
\* which is always 1, times 0.8 if a chunk used a fallback tier and times
\* 1.0 otherwise: exactly 0.8 for every degraded run, a fully degraded one
\* included, and 1.0 for a run with no degraded chunk.
ConfidenceIsSummaryFraction ==
    NormalReturn =>
        /\ Len(chunk_summaries) = Len(doc_chunks)
        /\ outcome.confidence_score * Len(doc_chunks) = Len(chunk_summaries) * PenaltyFactor
        /\ outcome.confidence_score = PenaltyFactor
        /\ (CleanChunks = {}) => outcome.confidence_score = 80

\* a run of two chunks, the first summarized by the primary call and the
\* second by the extractive fallback, returned confidence_score 0.8
ConfidenceWitness ==
    /\ NormalReturn
    /\ tiers = <<1, 3>>
    /\ outcome.confidence_score = 80

\* C14: every SummaryResult has 0 <= confidence_score <= 1; the score is
\* 1.0 only when no chunk needed a fallback tier; a run in which a chunk
\* fell back scores strictly below the same run without degradation.
ConfidenceBoundsAndOrder ==
    SummaryReturned =>
        /\ outcome.confidence_score >= 0
        /\ outcome.confidence_score <= 100
        /\ outcome.confidence_score = 100 => ~Degraded
        /\ Degraded => outcome.confidence_score < ConfidenceScore(chunk_summaries, doc_chunks, FALSE)

\* a run whose chunk was summarized by the default-parameter retry returned
\* a score below 1.0
ConfidenceBoundsWitness ==
    /\ Done
    /\ SummaryReturned
    /\ \E k \in 1..Len(tiers) : tiers[k] = 2
    /\ outcome.confidence_score > 0
    /\ outcome.confidence_score < 100

\* C20: the length cap is idempotent: applied to the summary_text and
\* max_words of a result of the normal path, it changes neither the text
\* nor the word count, and appends no second "...".
LengthCapIdempotent ==
    NormalReturn =>
        LengthCap(outcome.summary_text, validated_params.max_words) =
            [summary_text |-> outcome.summary_text, word_count |-> outcome.word_count]

\* a summary of more than max_words words was cut and marked
LengthCapWitness ==
    /\ NormalReturn
    /\ Len(SplitWs(final_summary)) > validated_params.max_words
    /\ outcome.word_count = validated_params.max_words
    /\ EndsWith(outcome.summary_text, Ellipsis)

\* the calls summarize made for chunk k, and those the merge made
ChunkCalls(k) ==
    SelectSeq(model_calls, LAMBDA c : c.stage \in {"primary", "retry"} /\ c.chunk = k)
MergeLog == SelectSeq(model_calls, LAMBDA c : c.stage \in {"merge_direct", "merge_chunk"})

\* C25: for each chunk, in chunk order and one at a time, summarize makes
\* at most two model calls and appends exactly one summary: a call on the
\* prompted chunk with the focus-adjusted parameters; only if it fails, one
\* retry on the bare chunk with the fixed default parameters; only if that
\* fails too, the three-sentence extract.  fallback_used holds exactly when
\* a chunk used the second or third tier, and the summaries reach the merge
\* in chunk order.
ChunkLadder ==
    /\ Len(chunk_summaries) = Len(tiers)
    /\ Len(tiers) <= Len(doc_chunks)
    /\ fallback_used <=> Degraded
    /\ \A k \in 1..Len(tiers) :
          LET calls == ChunkCalls(k)
          IN  /\ Len(calls) \in {1, 2}
              /\ calls[1].stage = "primary"
              /\ calls[1].input = [prompt |-> validated_params.focus, text |-> doc_chunks[k]]
              /\ calls[1].params =
                    SummaryLengthParams(validated_params.length, validated_params.focus)
              /\ Len(calls) = 2 <=> ~calls[1].ok
              /\ Len(calls) = 2 =>
                    /\ calls[2].stage = "retry"
                    /\ calls[2].input = [prompt |-> "none", text |-> doc_chunks[k]]
                    /\ calls[2].params =
                          [max_length |-> 150, min_length |-> 50, do_sample |-> FALSE,
                           num_beams |-> 2, early_stopping |-> TRUE, length_penalty |-> 10,
                           repetition_penalty |-> 11]
              /\ tiers[k] = (IF calls[1].ok THEN 1 ELSE IF calls[2].ok THEN 2 ELSE 3)
              /\ chunk_summaries[k] = (IF tiers[k] = 3 THEN FirstThreeSentences(doc_chunks[k])
                                       ELSE calls[tiers[k]].text)
    /\ \A i, j \in 1..Len(model_calls) :
          (i < j /\ model_calls[j].stage \in {"primary", "retry"}) =>
              /\ model_calls[i].stage \in {"primary", "retry"}
              /\ model_calls[i].chunk <= model_calls[j].chunk
    /\ MergeLog # <<>> =>
          /\ Len(chunk_summaries) = Len(doc_chunks)
          /\ MergeLog[1].stage = "merge_direct" =>
                MergeLog[1].input.text = Join(chunk_summaries, Space)

\* of two chunks, the first was summarized by the retry and the second by
\* the extract, and the merge is next
ChunkLadderWitness ==
    /\ pc = "merge"
    /\ tiers = <<2, 3>>
    /\ fallback_used
    /\ Len(model_calls) = 4

\* the joined summaries are above the token budget of one chunk
OverBudget ==
    TokenCount(Join(chunk_summaries, Space)) + SpecialTokens > max_chunk_size
AllCallsOk == \A k \in 1..Len(model_calls) : model_calls[k].ok

\* C26: for two or more summaries the merge joins them with single blanks;
\* when the token count of the joined text exceeds max_chunk_size it
\* re-chunks it with half of max_chunk_size, makes exactly one model call
\* per sub-chunk and returns the results joined in order; otherwise it makes
\* exactly one model call on the whole joined text.  A fully successful
\* summarize makes n + 1 model calls over n > 1 chunks whose summaries fit
\* the budget, and 1 call over one chunk.
MergeCallStructure ==
    /\ (pc = "post" /\ Len(chunk_summaries) >= 2) =>
          LET joined == Join(chunk_summaries, Space)
              pieces == chunk_text(joined, max_chunk_size \div 2)
          IN  IF OverBudget
              THEN /\ Len(MergeLog) = Len(pieces)
                   /\ \A k \in 1..Len(pieces) :
                         /\ MergeLog[k].stage = "merge_chunk"
                         /\ MergeLog[k].input.text = pieces[k]
                   /\ (\A k \in 1..Len(pieces) : MergeLog[k].ok) =>
                         final_summary = Join([k \in 1..Len(pieces) |-> MergeLog[k].text], Space)
              ELSE /\ Len(MergeLog) = 1
                   /\ MergeLog[1].stage = "merge_direct"
                   /\ MergeLog[1].input.text = joined
                   /\ MergeLog[1].ok => final_summary = MergeLog[1].text
    /\ (pc = "post" /\ Len(chunk_summaries) < 2) => MergeLog = <<>>
    /\ (NormalReturn /\ AllCallsOk /\ faults = {} /\ ~OverBudget) =>
          Len(model_calls) = (IF Len(doc_chunks) > 1 THEN Len(doc_chunks) + 1 ELSE 1)

\* the joined summaries were re-chunked and each of several sub-chunks was
\* summarized by one successful call
MergeCallStructureWitness ==
    /\ pc = "post"
    /\ OverBudget
    /\ Len(MergeLog) >= 2
    /\ \A k \in 1..Len(MergeLog) : MergeLog[k].ok

\* a fully successful run over two chunks made three calls
MergeDirectReached ==
    /\ NormalReturn
    /\ AllCallsOk
    /\ Len(doc_chunks) = 2
    /\ Len(model_calls) = 3

----------------------------------------------------------------------------
(* Properties of chunk_text                                                *)

Returned == ct_call.status = "returned"
WasSplit == Returned /\ ct_call.result.split

\* C5: a text whose token count is at most max_tokens (the empty text
\* included) comes back as the one-element list [text], unmodified.
ChunkRoundTrip ==
    (Returned /\ TokenCount(ct_call.text) <= ct_call.max_length)
        => ct_call.result.chunks = <<ct_call.text>>

\* a non-empty text that fits exactly (token count = max_tokens) came back whole
ChunkRoundTripWitness ==
    /\ Returned
    /\ ct_call.text # <<>>
    /\ Len(Split(ct_call.text, SentenceSep)) >= 2
    /\ TokenCount(ct_call.text) = ct_call.max_length
    /\ ct_call.result.chunks = <<ct_call.text>>

\* the empty text came back as [""]
ChunkEmptyTextWitness ==
    Returned /\ ct_call.text = <<>> /\ ct_call.result.chunks = <<<<>>>>

\* text without its whitespace
NoWs(s) == SelectSeq(s, LAMBDA c : c \notin Whitespace)

\* the sentences held by one chunk: the chunk is its fragments, each
\* followed by ". " (the last blank stripped)
ChunkSentences(chunk) ==
    LET parts == Split(chunk \o Space, SentenceSep)
    IN  SubSeq(parts, 1, Len(parts) - 1)

RECURSIVE AllChunkSentences(_)
AllChunkSentences(chunks) ==
    IF chunks = <<>> THEN <<>>
    ELSE ChunkSentences(chunks[1]) \o AllChunkSentences(Tail(chunks))

MapNoWs(fs) == [k \in 1..Len(fs) |-> NoWs(fs[k])]

\* C6: for a text that is split, the sentences of the chunks, read in
\* order and compared up to whitespace, are exactly the ". "-delimited
\* sentences of the text: none dropped, duplicated, reordered or altered.
ChunkCoverage ==
    WasSplit =>
        MapNoWs(AllChunkSentences(ct_call.result.chunks))
            = MapNoWs(Split(ct_call.text, SentenceSep))

\* a split into several chunks, one of them holding several sentences
ChunkCoverageWitness ==
    /\ WasSplit
    /\ Len(ct_call.result.chunks) >= 2
    /\ \E g \in 1..Len(ct_call.result.groups) : Len(ct_call.result.groups[g].frags) >= 2

\* summed token count of the fragments of group g
GroupTokens(g) ==
    LET sentences == Split(ct_call.text, SentenceSep)
        frags == ct_call.result.groups[g].frags
    IN  SumSeq([k \in 1..Len(frags) |-> TokenCount(sentences[frags[k]])])

\* C7: in a result of more than one chunk, a chunk of two or more
\* fragments has a summed fragment token count of at most max_tokens (so
\* only a single-fragment chunk may exceed it) and no chunk is empty.
ChunkTokenBound ==
    (WasSplit /\ Len(ct_call.result.chunks) > 1) =>
        /\ Len(ct_call.result.groups) = Len(ct_call.result.chunks)
        /\ \A g \in 1..Len(ct_call.result.chunks) :
              /\ ct_call.result.chunks[g] # <<>>
              /\ Len(ct_call.result.groups[g].frags) >= 1
              /\ (Len(ct_call.result.groups[g].frags) >= 2
                    => GroupTokens(g) <= ct_call.max_length)

\* a result with a chunk of two fragments within budget and an oversized
\* single-fragment chunk
ChunkTokenBoundWitness ==
    /\ WasSplit
    /\ Len(ct_call.result.chunks) > 1
    /\ \E g \in 1..Len(ct_call.result.groups) :
          Len(ct_call.result.groups[g].frags) >= 2 /\ GroupTokens(g) = ct_call.max_length
    /\ \E g \in 1..Len(ct_call.result.groups) :
          Len(ct_call.result.groups[g].frags) = 1 /\ GroupTokens(g) > ct_call.max_length

\* Scenario B: four sentences, none above max_tokens, every two of them
\* together above max_tokens
ScenarioB ==
    /\ Returned
    /\ LET sentences == Split(ct_call.text, SentenceSep)
       IN  /\ Len(sentences) = 4
           /\ \A k \in 1..4 : /\ TokenCount(sentences[k]) >= 1
                              /\ TokenCount(sentences[k]) <= ct_call.max_length
           /\ \A j, k \in 1..4 :
                 j < k => TokenCount(sentences[j]) + TokenCount(sentences[k]) > ct_call.max_length

\* C8 as stated: Scenario B yields exactly two chunks, sentences 1 and 2
\* in the first, sentences 3 and 4 in the second.
ScenarioBTwoChunks ==
    ScenarioB =>
        /\ Len(ct_call.result.chunks) = 2
        /\ ct_call.result.split
        /\ ct_call.result.groups[1].frags = <<1, 2>>
        /\ ct_call.result.groups[2].frags = <<3, 4>>

\* C8 amended: Scenario B yields exactly four chunks, one sentence each,
\* in the original order.
ScenarioBFourChunks ==
    ScenarioB =>
        /\ ct_call.result.split
        /\ Len(ct_call.result.chunks) = 4
        /\ \A k \in 1..4 :
              /\ ct_call.result.groups[k].frags = <<k>>
              /\ ct_call.result.chunks[k] = Strip(Split(ct_call.text, SentenceSep)[k] \o SentenceSep)

ScenarioBWitness ==
    ScenarioB /\ Len(ct_call.result.chunks) = 4

----------------------------------------------------------------------------
(* Properties of the directly called methods                               *)

Validated == helper_call.fn = "validate_and_sanitize_params"
Merged == helper_call.fn = "merge_chunk_summaries"
EmergencyCalled == helper_call.fn = "_create_emergency_fallback_summary"
PostProcessed == helper_call.fn = "_post_process_summary"
RoundTripped == helper_call.fn = "focus_round_trip"

\* C12: validate_and_sanitize_params returns, for every SummaryParams, a
\* SummaryParams with length in {brief, standard, detailed}, focus in
\* {general, obligations, parties, dates} and 50 <= max_words <= 1000; a
\* valid field is passed through unchanged, an invalid length becomes
\* standard, an invalid focus general, max_words below 50 becomes 50 and
\* above 1000 becomes 1000; the call never raises and leaves its argument
\* as it was.
ValidateSanitizes ==
    Validated =>
        LET given == helper_call.params
            result == helper_call.result
        IN  /\ helper_call.status = "returned"
            /\ helper_call.params_after = given
            /\ result.length \in {"brief", "standard", "detailed"}
            /\ result.focus \in {"general", "obligations", "parties", "dates"}
            /\ result.max_words >= 50
            /\ result.max_words <= 1000
            /\ result.length = (IF given.length \in {"brief", "standard", "detailed"}
                                THEN given.length ELSE "standard")
            /\ result.focus = (IF given.focus \in {"general", "obligations", "parties", "dates"}
                               THEN given.focus ELSE "general")
            /\ result.max_words = (IF given.max_words < 50 THEN 50
                                   ELSE IF given.max_words > 1000 THEN 1000
                                   ELSE given.max_words)

\* a request wrong in every field was sanitized
ValidateWitness ==
    /\ Validated
    /\ helper_call.params = [length |-> "super_long", focus |-> "random_focus", max_words |-> 5000]
    /\ helper_call.result = [length |-> "standard", focus |-> "general", max_words |-> 1000]

\* C15: merge_chunk_summaries returns "" for the empty list and the single
\* element unchanged for a list of one, with no call of the tokenizer and
\* none of the model, whether or not a model is loaded.
MergeShortLists ==
    (Merged /\ Len(helper_call.summaries) <= 1) =>
        /\ helper_call.status = "returned"
        /\ helper_call.result =
              (IF helper_call.summaries = <<>> THEN <<>> ELSE helper_call.summaries[1])
        /\ helper_call.tokenizer_calls = 0
        /\ helper_call.model_calls = 0

\* a single summary was returned with no model loaded at all
MergeShortListsWitness ==
    /\ Merged
    /\ Len(helper_call.summaries) = 1
    /\ ~tokenizer
    /\ ~summarizer_pipeline
    /\ helper_call.result = helper_call.summaries[1]
    /\ helper_call.result # <<>>

\* C16: merge_chunk_summaries never raises; whenever a step of the merge
\* fails (the token count, the re-chunking, a model call of either branch)
\* it returns the summaries joined by single blanks.
MergeDegradesToJoin ==
    Merged =>
        /\ helper_call.status = "returned"
        /\ helper_call.failed # {} => helper_call.result = Join(helper_call.summaries, Space)

\* the sentences the emergency fallback takes for a length
ExpectedSentences(length) ==
    IF length = "brief" THEN 2 ELSE IF length = "standard" THEN 4 ELSE 6

\* the first n ". "-separated sentences of text rejoined with ". " and
\* terminated by a period, cut to max_words words and marked when longer
ExpectedExtract(text, n, max_words) ==
    LET parts == Split(text, SentenceSep)
        k == IF Len(parts) < n THEN Len(parts) ELSE n
        joined == Join(SubSeq(parts, 1, k), SentenceSep)
        terminated == IF joined # <<>> /\ joined[Len(joined)] = "." THEN joined
                      ELSE joined \o <<".">>
        words == SplitWs(terminated)
    IN  IF Len(words) > max_words
        THEN Join(SubSeq(words, 1, max_words), Space) \o <<".", ".", ".">>
        ELSE terminated

\* C17: the emergency fallback returns, for every text and without raising,
\* a SummaryResult whose summary_text is "[Extractive Summary] " followed by
\* the first N ". "-separated sentences of the text (N = 2, 4, 6 for brief,
\* standard, detailed), cut to max_words words with "..." appended when
\* longer, and whose confidence_score is 0.3.
EmergencyFallbackExtract ==
    (EmergencyCalled /\ helper_call.params.length \in {"brief", "standard", "detailed"}) =>
        /\ helper_call.status = "returned"
        /\ helper_call.result.status = "returned"
        /\ helper_call.result.summary_text =
              TagOnly \o <<" ">> \o ExpectedExtract(helper_call.original_text,
                                                   ExpectedSentences(helper_call.params.length),
                                                   helper_call.params.max_words)
        /\ helper_call.result.confidence_score = 30

\* a detailed extract of a text of more than six sentences was cut to
\* max_words words
EmergencyFallbackWitness ==
    /\ EmergencyCalled
    /\ helper_call.params.length = "detailed"
    /\ Len(Split(helper_call.original_text, SentenceSep)) > 6
    /\ helper_call.params.max_words = 5
    /\ EndsWith(helper_call.result.summary_text, Ellipsis)
    /\ Len(SplitWs(helper_call.result.summary_text)) = 7

\* the label _post_process_summary prepends for a focus, and the keywords
\* of that focus
FocusLabel(focus) ==
    IF focus = "obligations" THEN KeyObligationsLabel
    ELSE IF focus = "parties" THEN PartiesInvolvedLabel
    ELSE ImportantDatesLabel
FocusKeywords(focus) ==
    IF focus = "obligations" THEN obligation_keywords
    ELSE IF focus = "parties" THEN party_keywords
    ELSE date_keywords
Labelled(out) ==
    \E f \in {"obligations", "parties", "dates"} : StartsWith(out, FocusLabel(f))

\* C18: _post_process_summary prepends "Key Obligations: ", "Parties
\* Involved: " or "Important Dates: " only under the focus of that label and
\* only when the summary contains, in either case, a keyword of that focus;
\* a summary with none of them gets no label, and focus general never does.
LabelOnlyWithKeyword ==
    PostProcessed =>
        /\ \A f \in {"obligations", "parties", "dates"} :
              StartsWith(helper_call.result, FocusLabel(f)) =>
                  /\ helper_call.focus = f
                  /\ ContainsAny(LowerText(helper_call.summary), FocusKeywords(f))
                  /\ ContainsAny(LowerText(SubSeq(helper_call.result, Len(FocusLabel(f)) + 1,
                                                  Len(helper_call.result))), FocusKeywords(f))
        /\ helper_call.focus \notin {"obligations", "parties", "dates"} => ~Labelled(helper_call.result)

\* under focus parties a summary containing "client" was labelled
LabelWitness ==
    /\ PostProcessed
    /\ helper_call.focus = "parties"
    /\ helper_call.summary = <<"x", " ", "c", "l", "i", "e", "n", "t">>
    /\ helper_call.result = PartiesInvolvedLabel \o <<"x", " ", "c", "l", "i", "e", "n", "t">>

\* C19: for every text and focus, the output of _post_process_summary
\* applied to the emphasized text contains no "**".
NoEmphasisMarkLeft ==
    RoundTripped => ~Contains(helper_call.result, <<"*", "*">>)

----------------------------------------------------------------------------
(* Properties of ErrorHandler.with_retry                                   *)

RetryCalls == {i \in 1..Len(retry_log) : retry_log[i].call = "with_retry"}

\* the first successful invocation of an operation, 0 when all fail
FirstSuccess(operation) ==
    IF \E k \in 1..max_retries : operation[k] = "ok"
    THEN CHOOSE k \in 1..max_retries :
            /\ operation[k] = "ok"
            /\ \A j \in 1..(k - 1) : operation[j] = "fail"
    ELSE 0

\* C22: from an operation_id with no recorded retries, with_retry invokes
\* the operation until its first success or until 3 attempts failed; on
\* success it returns that invocation's result and leaves the count 0; when
\* all attempts fail it re-raises the third exception after exactly 3
\* invocations and leaves the count 3; after the k-th failed attempt that
\* is followed by another it sleeps retry_delay * k.
RetryFromFresh ==
    \A i \in RetryCalls :
        LET c == retry_log[i]
            k == FirstSuccess(c.operation)
        IN  c.before = 0 =>
              /\ ~c.exhausted
              /\ k # 0 => /\ c.invocations = k
                          /\ c.returned = k
                          /\ c.raised = 0
                          /\ c.after = 0
                          /\ c.sleeps = [j \in 1..(k - 1) |-> retry_delay * j]
              /\ k = 0 => /\ c.invocations = 3
                          /\ c.returned = 0
                          /\ c.raised = 3
                          /\ c.after = 3
                          /\ c.sleeps = <<retry_delay, retry_delay * 2>>

\* a first call failed three times and a call with another id succeeded at
\* its third attempt
RetryFromFreshWitness ==
    /\ Len(retry_log) = 2
    /\ retry_log[1].call = "with_retry" /\ retry_log[1].raised = 3
    /\ retry_log[2].call = "with_retry" /\ retry_log[2].before = 0
    /\ retry_log[2].returned = 3
    /\ retry_log[2].operation_id # retry_log[1].operation_id

\* C27: every with_retry call invokes the operation at least once and at
\* most max_retries times, however earlier calls with the same
\* operation_id ended.
EveryCallAttempts ==
    \A i \in RetryCalls :
        /\ retry_log[i].invocations >= 1
        /\ retry_log[i].invocations <= max_retries

----------------------------------------------------------------------------
(* Properties of ProcessingPipeline.process_document                       *)

\* C28: a failed process_document is handled by the handler of the state in
\* which the exception occurred (UPLOADING: handle_upload_error, EXTRACTING:
\* handle_extraction_error, SUMMARIZING: handle_model_error, any other
\* state: handle_system_error) and re-raises that handler's user message.
StageErrorHandler ==
    pipe_call.result = "raised" =>
        /\ pipe_call.handler = ErrorHandlerFor(pipe_call.failed_in)
        /\ pipe_call.message =
              UserMessage(ErrorHandlerFor(pipe_call.failed_in), pipe_call.error)

\* position of a state in the progression of process_document
StateRank(state) ==
    IF state = "UPLOADING" THEN 1
    ELSE IF state = "EXTRACTING" THEN 2
    ELSE IF state = "SUMMARIZING" THEN 3
    ELSE 4

NonDecreasing(seq) == \A i \in 1..(Len(seq) - 1) : seq[i] <= seq[i + 1]

\* C29: every process_document call moves current_state through UPLOADING,
\* EXTRACTING, SUMMARIZING in that order, without skipping and without
\* going back, and ends in COMPLETE, reached from SUMMARIZING with progress
\* never decreasing, the last reported progress 100 and documents_processed
\* one higher, or in ERROR with the last reported progress 0,
\* errors_encountered one higher and documents_processed unchanged;
\* is_processing() is false whenever no call is in progress.
ProcessingProgression ==
    /\ pipe_pc = "idle" => ~is_processing
    /\ pipe_call.result # "none" =>
          /\ status_reports[1] = "UPLOADING"
          /\ \A i \in 1..(Len(status_reports) - 1) :
                /\ status_reports[i] \in {"UPLOADING", "EXTRACTING", "SUMMARIZING"}
                /\ StateRank(status_reports[i]) <= StateRank(status_reports[i + 1])
                /\ status_reports[i + 1] # "ERROR" =>
                      StateRank(status_reports[i + 1]) <= StateRank(status_reports[i]) + 1
    /\ pipe_call.result = "running" =>
          /\ current_state = status_reports[Len(status_reports)]
          /\ current_state \in {"UPLOADING", "EXTRACTING", "SUMMARIZING"}
          /\ NonDecreasing(progress_reports)
    /\ pipe_call.result = "returned" =>
          /\ status_reports[Len(status_reports)] = "COMPLETE"
          /\ current_state \in {"COMPLETE", "IDLE"}
          /\ NonDecreasing(progress_reports)
          /\ progress_reports[Len(progress_reports)] = 100
          /\ processing_stats.documents_processed =
                pipe_call.stats_before.documents_processed + 1
          /\ processing_stats.errors_encountered = pipe_call.stats_before.errors_encountered
    /\ pipe_call.result = "raised" =>
          /\ status_reports[Len(status_reports)] = "ERROR"
          /\ current_state \in {"ERROR", "IDLE"}
          /\ NonDecreasing(SubSeq(progress_reports, 1, Len(progress_reports) - 1))
          /\ progress_reports[Len(progress_reports)] = 0
          /\ processing_stats.errors_encountered =
                pipe_call.stats_before.errors_encountered + 1
          /\ processing_stats.documents_processed =
                pipe_call.stats_before.documents_processed

\* a second document was processed to the end, with the model loaded on the
\* way, after a first one failed during the extraction
ProcessingProgressionWitness ==
    /\ pipe_pc = "idle"
    /\ pipe_call.number = 2
    /\ pipe_call.result = "returned"
    /\ progress_reports = <<5, 10, 20, 25, 35, 40, 45, 60, 90, 100>>
    /\ processing_stats = [documents_processed |-> 1, errors_encountered |-> 1]

\* C30: when process_document has returned or raised, and after
\* DocumentHandler.cleanup_temp_files(), the handler tracks no file and no
\* temporary file created by save_temp_file exists or is tracked by the
\* SecurityService.
TempFilesGone ==
    pipe_pc = "idle" =>
        /\ handler_temp_files = {}
        /\ \A file \in created_files :
              /\ file \notin disk_files
              /\ file \notin security_temp_files

----------------------------------------------------------------------------
(* Properties of load_model and of its callers                             *)

\* is_model_loaded() is false initially, becomes true only in a step in
\* which a load_model call completes successfully, is true after every such
\* call and never becomes false again; summarize called while it is false
\* raises RuntimeError without a model call; process_document invokes
\* load_model only while it is false, and at most one of these invocations
\* succeeds
LoadedBySuccessfulLoad ==
    /\ load_status = "none" => ~is_model_loaded
    /\ load_status = "ok" => is_model_loaded
    /\ \A i \in 1..Len(pipeline_loads) : ~pipeline_loads[i].loaded_before
    /\ Cardinality({i \in 1..Len(pipeline_loads) : pipeline_loads[i].ok}) <= 1
LoadDisciplineStep ==
    /\ is_model_loaded => is_model_loaded'
    /\ (is_model_loaded' /\ ~is_model_loaded) => load_status' = "ok"
    /\ (outcome' # outcome /\ ~is_model_loaded) =>
          /\ outcome' = [status |-> "raised", error |-> "RuntimeError: Model not loaded"]
          /\ model_calls' = model_calls

\* C21, as stated: is_model_loaded() is true exactly when a load_model()
\* call has completed successfully; summarize or chunk_text called before
\* a successful load raise RuntimeError without invoking the model;
\* process_document calls load_model only while is_model_loaded() is false,
\* so that the model is initialized at most once.
LoadBeforeUse ==
    /\ []LoadedBySuccessfulLoad
    /\ [][LoadDisciplineStep]_vars
    /\ [][(ct_call' # ct_call /\ ~is_model_loaded) => ct_call'.status = "RuntimeError"]_vars

\* C21, amended: as above, with chunk_text raising RuntimeError exactly
\* when no tokenizer has been loaded, which after a load_model that failed
\* past the tokenizer is no longer the case although is_model_loaded() is
\* false.
LoadBeforeUseTokenizer ==
    /\ []LoadedBySuccessfulLoad
    /\ [][LoadDisciplineStep]_vars
    /\ [][ct_call' # ct_call => (ct_call'.status = "RuntimeError" <=> ~tokenizer)]_vars

\* two documents were processed with a single successful load_model, made
\* for the first after a failed attempt, and summarize and chunk_text had
\* been called before and had raised RuntimeError
LoadBeforeUseWitness ==
    /\ processing_stats.documents_processed = 2
    /\ Len(pipeline_loads) = 2
    /\ ~pipeline_loads[1].ok /\ pipeline_loads[2].ok
    /\ ct_call.status = "RuntimeError"
    /\ outcome.status = "raised"

\* chunk_text returned chunks although no load_model call had succeeded
ChunkTextWithoutModel ==
    /\ ct_call.status = "returned"
    /\ ~is_model_loaded

----------------------------------------------------------------------------
(* Properties of the SecurityService session store                         *)

\* C23: after store_session_data(s, k, v, ttl), get_session_data(s, k)
\* returns v until the TTL has elapsed and None from then on;
\* clear_session_data(s) removes exactly the data of session s, returns 1
\* when s existed and leaves every other session as it was;
\* clear_session_data() removes all sessions and returns their number;
\* whatever the cleanup thread does in between.
SessionStoreContract ==
    /\ session_op.op = "get" =>
          LET entry == stored_entries[session_op.session_id, session_op.key]
          IN  entry # NoEntry =>
                 session_op.result =
                    (IF session_op.time <= entry.expires_at THEN entry.value ELSE "None")
    /\ (session_op.op = "clear" /\ session_op.arg.given) =>
          LET s == session_op.arg.session_id
          IN  /\ session_op.after = [id \in DOMAIN session_op.before \ {s} |->
                                       session_op.before[id]]
              /\ s \in DOMAIN session_op.before => session_op.result = 1
    /\ (session_op.op = "clear" /\ ~session_op.arg.given) =>
          /\ session_op.after = NoSessions
          /\ session_op.result = Cardinality(DOMAIN session_op.before)

----------------------------------------------------------------------------
(* Properties of RateLimiter.check_limit                                   *)

\* the calls of a client made in the window starting at from, by the time
\* check_limit read, that returned True
AllowedIn(client_id, from) ==
    {i \in 1..Len(limit_log) :
        /\ limit_log[i].client_id = client_id
        /\ limit_log[i].result
        /\ limit_log[i].current_time \in from..(from + window_seconds - 1)}

\* C24: for every client, at most max_requests check_limit calls return
\* True within any window of window_seconds, whichever threads make them; a
\* call that returns False is not recorded; the clients are counted apart.
RateBound ==
    /\ \A client_id \in Clients, from \in 0..MaxTime :
          Cardinality(AllowedIn(client_id, from)) <= max_requests
    /\ \A i \in 1..Len(limit_log) : limit_log[i].recorded <= max_requests

====
